---- MODULE Spec2Model ----
(***************************************************************************)
(* Multi-strategy Twitter acquisition: PostCollector (the orchestrator),   *)
(* NitterClient (mirror pool) and XAgentClient (Node.js CLI wrapper); and   *)
(* the authenticated client: XAuthClient with TwitterHTTPSession (cookie   *)
(* jar, cookie file, headers) and TwitterAuthFlow (the login flow).        *)
(* Time is counted in seconds; the clock advances by the back-off sleeps   *)
(* and between accounts, the short random sleeps are not counted.          *)
(***************************************************************************)
EXTENDS Integers, Sequences, FiniteSets, TLC

\* ------------------------------------------------------------------ bounds
NumAccounts == 2
MaxTweets == 1
MaxPriorityLen == 2
MaxTime == 400
MaxLimitCount == 4
MaxProbes == 1
NumCt0 == 2
NumTokens == 2
MaxAgeDays == 8
MaxPoolLimits == 1
MaxEntries == 2
MaxTasks == 2
MaxEvents == 3
MaxPosts == 2

\* ------------------------------------------------------- program constants
MutMaxRetries == 2 + 1

max_retries == 2
rate_limit_cooldown == 300
instance_check_interval == 900
InitialBackoff == 30
BackoffCap == 240
cookie_cache_days == 7
max_requests == 5

\* set of the entries of a sequence
Range(f) == {f[k] : k \in 1..Len(f)}

Min(a, b) == IF a < b THEN a ELSE b

Max(a, b) == IF a > b THEN a ELSE b

RECURSIVE Pow(_, _)
Pow(b, e) == IF e = 0 THEN 1 ELSE b * Pow(b, e - 1)

\* =========================================================================
\* XAgentClient
\* =========================================================================

\* Error texts the CLI can hand back, each with the lower-cased indicator
\* substrings it contains.
ErrorMsgs ==
    {"Request timeout", "Twitter Error 399", "Login failed", "CLI execution failed"}

Substrings(msg) ==
    CASE msg = "Request timeout" -> {"timeout"}
      [] msg = "Twitter Error 399" -> {"error 399"}
      [] msg = "Login failed" -> {"login failed", "login"}
      [] OTHER -> {}

fallback_patterns ==
    {"error 399", "incorrect. please try again", "authorization required",
     "not authorized", "suspended", "account suspended", "blocked",
     "rate limit exceeded", "too many requests", "challenge required",
     "phone verification", "verify your identity", "automation detected",
     "unusual activity"}

IsFallbackError(msg) == Substrings(msg) \cap fallback_patterns # {}

\* Raw entries of the CLI's "tweets" array: a JSON object, or a value that
\* is not an object (item assignment on it raises TypeError).
RawItems == {"obj", "null"}

RawTweetLists == UNION {[1..n -> RawItems] : n \in 0..MaxTweets}

CliResults ==
    {[success |-> TRUE, tweets |-> t, error |-> ""] : t \in RawTweetLists}
    \cup {[success |-> FALSE, tweets |-> <<>>, error |-> e] : e \in ErrorMsgs}

\* A post as the orchestrator sees it.
Post(kind, id, method) ==
    [kind |-> kind, id |-> id, method |-> method, category |-> FALSE]

\* The per-post loop of get_user_tweets: entries are tagged in order; the
\* first non-object entry raises and leaves itself and the rest untouched.
RECURSIVE NormalizeFrom(_, _, _)
NormalizeFrom(tweets, k, stopped) ==
    IF k > Len(tweets) THEN <<>>
    ELSE LET bad == stopped \/ tweets[k] # "obj" IN
         <<IF bad THEN Post(tweets[k], k, "none")
           ELSE Post("obj", k, "agent-twitter-client")>>
         \o NormalizeFrom(tweets, k + 1, bad)

NormalizeTweets(tweets) == NormalizeFrom(tweets, 1, FALSE)

NormalizeRaises(tweets) == \E k \in 1..Len(tweets) : tweets[k] # "obj"

\* `time.sleep(self.retry_delay)` in the inner handler: the attribute is never
\* assigned, so evaluating it raises AttributeError.
MutRetryDelayDefined == TRUE

RetryDelayDefined == FALSE

MutAgentOuterCatches(e) == e \notin {"AttributeError"}

\* the outer `except Exception` of get_user_tweets
AgentOuterCatches(e) == e \in {"TwitterFallbackRequired", "TypeError", "AttributeError"}

\* The retry loop.  results[a + 1] is what _call_cli returns on attempt a;
\* the value is [posts, cli (the results consumed), exc (the exception that
\* leaves the loop)].
RECURSIVE AgentLoop(_, _, _, _)
AgentLoop(results, attempt, posts, log) ==
    IF attempt >= max_retries
    THEN [posts |-> posts, cli |-> log, exc |-> "none"]
    ELSE
    LET r == results[attempt + 1]
        log2 == Append(log, [success |-> r.success, error |-> r.error])
        \* the inner `except Exception` handler, entered with the posts so far
        Handler(p) ==
            IF attempt < max_retries - 1
            THEN IF RetryDelayDefined
                 THEN AgentLoop(results, attempt + 1, p, log2)
                 ELSE [posts |-> p, cli |-> log2, exc |-> "AttributeError"]
            ELSE [posts |-> p, cli |-> log2, exc |-> "none"]
    IN
    IF r.success
    THEN IF NormalizeRaises(r.tweets)
         THEN Handler(NormalizeTweets(r.tweets))
         ELSE [posts |-> NormalizeTweets(r.tweets), cli |-> log2, exc |-> "none"]
    ELSE IF IsFallbackError(r.error)
    THEN Handler(posts)
    \* an authentication error or any other error: sleep and `continue`
    \* while attempts remain, else the iteration just ends
    ELSE AgentLoop(results, attempt + 1, posts, log2)

\* get_user_tweets: exc is the exception that reaches the caller
AgentGetUserTweets(results) ==
    LET a == AgentLoop(results, 0, <<>>, <<>>) IN
    [a EXCEPT !.exc = IF AgentOuterCatches(@) THEN "none" ELSE @]

\* =========================================================================
\* NitterClient
\* =========================================================================

\* NITTER_INSTANCES, in configuration order
InstanceList == <<"i1", "i2">>

Instances == {InstanceList[k] : k \in 1..Len(InstanceList)}

NoStats == [success_count |-> 0, fail_count |-> 0, avg_response_time |-> 0]

NoTracker == [present |-> FALSE, count |-> 0, last_rate_limit |-> 0, backoff_delay |-> 0]

\* NitterClient.__init__
FreshClient ==
    [working_instances |-> <<>>,
     last_instance_check |-> <<>>,
     instance_stats |-> [i \in Instances |-> NoStats],
     rate_limit_tracker |-> [i \in Instances |-> NoTracker]]

\* _is_instance_in_cooldown at time t
IsInstanceInCooldown(tracker, inst, t) ==
    /\ tracker[inst].present
    /\ t < tracker[inst].last_rate_limit + rate_limit_cooldown

MutBackoffDelay(count) == InitialBackoff * Pow(2, count)

\* min(30 * (2 ** count), 240)
BackoffDelay(count) == Min(InitialBackoff * Pow(2, count), BackoffCap)

\* _record_rate_limit at time t
RecordRateLimit(tracker, inst, t) ==
    IF ~tracker[inst].present
    THEN [tracker EXCEPT ![inst] =
            [present |-> TRUE, count |-> 0, last_rate_limit |-> t,
             backoff_delay |-> InitialBackoff]]
    ELSE [tracker EXCEPT ![inst] =
            [present |-> TRUE, count |-> @.count + 1, last_rate_limit |-> t,
             backoff_delay |-> BackoffDelay(@.count + 1)]]

\* _get_backoff_delay
GetBackoffDelay(tracker, inst) ==
    IF ~tracker[inst].present THEN 0 ELSE tracker[inst].backoff_delay

\* get_performance_score as the fraction ScoreNum / ScoreDen:
\* success_rate * 0.7 + (1 / max(response_time, 0.1)) * 0.3, times 10
ScoreNum(stats, inst) ==
    LET s == stats[inst]
        total == s.success_count + s.fail_count
        rt10 == IF s.avg_response_time * 10 > 1 THEN s.avg_response_time * 10 ELSE 1
    IN IF total = 0 THEN 0 ELSE 7 * s.success_count * rt10 + 30 * total

ScoreDen(stats, inst) ==
    LET s == stats[inst]
        total == s.success_count + s.fail_count
        rt10 == IF s.avg_response_time * 10 > 1 THEN s.avg_response_time * 10 ELSE 1
    IN IF total = 0 THEN 1 ELSE total * rt10

ScoreGeq(stats, a, b) ==
    ScoreNum(stats, a) * ScoreDen(stats, b) >= ScoreNum(stats, b) * ScoreDen(stats, a)

\* stable insertion of x into a list already in descending score order
RECURSIVE InsertByScore(_, _, _)
InsertByScore(stats, sorted, x) ==
    IF sorted = <<>> THEN <<x>>
    ELSE IF ScoreGeq(stats, Head(sorted), x)
    THEN <<Head(sorted)>> \o InsertByScore(stats, Tail(sorted), x)
    ELSE <<x>> \o sorted

MutSortInstancesByPerformance(stats, insts) == insts

\* _sort_instances_by_performance: sorted(..., reverse=True), stable
RECURSIVE SortInstancesByPerformance(_, _)
SortInstancesByPerformance(stats, insts) ==
    IF insts = <<>> THEN <<>>
    ELSE InsertByScore(stats,
                       SortInstancesByPerformance(stats, SubSeq(insts, 1, Len(insts) - 1)),
                       insts[Len(insts)])

\* What one probe request can meet: a 200 page with timeline items after rt
\* seconds, or a failure (a 200 page without items, another status, 429
\* included, or an exception: each only counts as a failure).
ProbeOutcomes ==
    {[kind |-> "content", rt |-> r] : r \in {1, 2}} \cup {[kind |-> "fail", rt |-> 0]}

MutProbeUsable(o) == TRUE

\* `response.status_code == 200` and `len(timeline_items) > 0`
ProbeUsable(o) == o.kind = "content"

\* the per-instance loop of _check_instances, from instance k on
RECURSIVE ProbeFrom(_, _, _, _, _)
ProbeFrom(probe, k, working, stats, t) ==
    IF k > Len(InstanceList)
    THEN [working |-> working, stats |-> stats, t |-> t]
    ELSE LET inst == InstanceList[k]
             o == probe[inst]
         IN IF ProbeUsable(o)
            THEN ProbeFrom(probe, k + 1, Append(working, inst),
                           [stats EXCEPT ![inst].success_count = @ + 1,
                                         ![inst].avg_response_time = o.rt],
                           t)
            ELSE ProbeFrom(probe, k + 1, working,
                           [stats EXCEPT ![inst].fail_count = @ + 1],
                           t)

\* _check_instances started at time t; the value is [client, t]
CheckInstances(client, probe, t) ==
    LET p == ProbeFrom(probe, 1, <<>>, client.instance_stats, t) IN
    [client |-> [client EXCEPT
                    !.working_instances = SortInstancesByPerformance(p.stats, p.working),
                    !.instance_stats = p.stats,
                    !.last_instance_check = <<p.t>>],
     t |-> p.t]

\* What one acquisition request can meet: 404, 429, a page with n posts, or
\* an error (another status or an exception: the loop goes on either way).
AcqOutcomes ==
    {[kind |-> k, n |-> 0] : k \in {"404", "429", "error"}}
    \cup {[kind |-> "ok", n |-> n] : n \in 0..MaxTweets}

NitterPosts(n) == [k \in 1..n |-> Post("obj", k, "nitter")]

\* [inst \in avail : ~cooldown], keeping order
RECURSIVE FilterAvailable(_, _, _)
FilterAvailable(insts, tracker, t) ==
    IF insts = <<>> THEN <<>>
    ELSE (IF IsInstanceInCooldown(tracker, Head(insts), t) THEN <<>> ELSE <<Head(insts)>>)
         \o FilterAvailable(Tail(insts), tracker, t)

RECURSIVE MinBackoff(_, _)
MinBackoff(insts, tracker) ==
    IF Len(insts) = 1 THEN GetBackoffDelay(tracker, insts[1])
    ELSE Min(GetBackoffDelay(tracker, insts[1]), MinBackoff(Tail(insts), tracker))

MutGetUserTweetsCatches(o) == FALSE

\* `continue` on a status other than 200, and `except Exception: continue`
\* around one instance's request and parsing
GetUserTweetsCatches(o) == o.kind = "error"

\* the `for instance in available_instances` loop of get_user_tweets, from
\* position k on.  reqs collects the requests sent (instance, send time and
\* position in the order of sending), limits the 429 answers recorded;
\* raised tells that an exception left the loop.
RECURSIVE NitterTry(_, _, _, _, _, _, _)
NitterTry(avail, k, out, tracker, t, reqs, limits) ==
    IF k > Len(avail)
    THEN [posts |-> <<>>, tracker |-> tracker, t |-> t, reqs |-> reqs, limits |-> limits,
          raised |-> FALSE]
    ELSE LET inst == avail[k]
             o == out[inst]
             reqs2 == reqs \cup {[inst |-> inst, at |-> t, ord |-> Cardinality(reqs) + 1]}
         IN CASE o.kind = "404" ->
                   [posts |-> <<>>, tracker |-> tracker, t |-> t,
                    reqs |-> reqs2, limits |-> limits, raised |-> FALSE]
              [] o.kind = "429" ->
                   LET tr2 == RecordRateLimit(tracker, inst, t) IN
                   NitterTry(avail, k + 1, out, tr2,
                             t + GetBackoffDelay(tr2, inst), reqs2,
                             limits \cup {[inst |-> inst, at |-> t]})
              [] o.kind = "ok" ->
                   [posts |-> NitterPosts(o.n), tracker |-> tracker, t |-> t,
                    reqs |-> reqs2, limits |-> limits, raised |-> FALSE]
              [] OTHER ->
                   IF GetUserTweetsCatches(o)
                   THEN NitterTry(avail, k + 1, out, tracker, t, reqs2, limits)
                   ELSE [posts |-> <<>>, tracker |-> tracker, t |-> t,
                         reqs |-> reqs2, limits |-> limits, raised |-> TRUE]

\* NitterClient.get_user_tweets started at time t
NitterGetUserTweets(client, out, t) ==
    LET working == client.working_instances
        tracker == client.rate_limit_tracker
        avail0 == FilterAvailable(working, tracker, t)
        wait == IF working # <<>> /\ avail0 = <<>> THEN MinBackoff(working, tracker) ELSE 0
        avail == IF wait > 0 THEN FilterAvailable(working, tracker, t + wait) ELSE avail0
    IN IF working = <<>>
       THEN [posts |-> <<>>, tracker |-> tracker, t |-> t, reqs |-> {}, limits |-> {},
             raised |-> FALSE]
       ELSE NitterTry(avail, 1, out, tracker, t + wait, {}, {})

\* =========================================================================
\* TwitterHTTPSession, TwitterAuthFlow, XAuthClient: data
\* =========================================================================

\* The cookie jar: whether auth_token is in it, and the value of ct0
\* (0: no ct0 cookie).
EmptyJar == [auth |-> FALSE, ct0 |-> 0]

Jars == [auth : BOOLEAN, ct0 : 0..NumCt0]

\* The account's cookie file: its age in days and the jar written into it.
NoFile == [exists |-> FALSE, age |-> 0, jar |-> EmptyJar]

\* is_logged_in: auth_token and ct0 are both in the jar
IsLoggedIn(j) == j.auth /\ j.ct0 # 0

MutCacheExpired(age) == FALSE

\* `file_age_days > self.cookie_cache_days` of _load_cookies
CacheExpired(age) == age > cookie_cache_days

\* TwitterHTTPSession.__init__ with a username: an empty jar, no
\* x-csrf-token header, then _load_cookies.  The value is the session:
\* [jar, csrf, file].
NewSession(file) ==
    IF ~file.exists THEN [jar |-> EmptyJar, csrf |-> 0, file |-> file]
    ELSE IF CacheExpired(file.age) THEN [jar |-> EmptyJar, csrf |-> 0, file |-> NoFile]
    ELSE [jar |-> file.jar, csrf |-> 0, file |-> file]

\* _update_csrf_token: the header is set when the jar holds ct0, and is left
\* as it is otherwise
UpdateCsrfToken(s) == [s EXCEPT !.csrf = IF s.jar.ct0 # 0 THEN s.jar.ct0 ELSE @]

\* save_cookies (a username is set)
SaveCookies(s) == [s EXCEPT !.file = [exists |-> TRUE, age |-> 0, jar |-> s.jar]]

\* clear_cookies
ClearCookies(s) == [s EXCEPT !.jar = EmptyJar, !.file = NoFile]

\* What the server can answer to a request outside the login flow: no
\* answer (RequestException), a status >= 400, a 200 whose body carries
\* errors (or lacks what was asked for), or a 200 with the data.  ct0 is the
\* value of a ct0 cookie the answer sets (0: none).
PlainResponses ==
    {[kind |-> "exc", ct0 |-> 0]}
    \cup {[kind |-> k, ct0 |-> c] : k \in {"http", "errors", "ok"}, c \in 0..NumCt0}

\* The cookies an answer sets are taken into the jar.
SetCookies(j, resp, auth) ==
    [auth |-> j.auth \/ auth, ct0 |-> IF resp.ct0 # 0 THEN resp.ct0 ELSE j.ct0]

\* TwitterHTTPSession.request: the header is refreshed, the request goes out
\* with it, and a response with status < 400 is followed by save_cookies.
\* The value is the session after it, with the header the request carried
\* and the ct0 the jar held when it went out.
Request(s, resp, auth) ==
    LET s1 == UpdateCsrfToken(s)
        s2 == [s1 EXCEPT !.jar = SetCookies(@, resp, auth)]
        s3 == IF resp.kind \in {"exc", "http"} THEN s2 ELSE SaveCookies(s2)
    IN [jar |-> s3.jar, csrf |-> s3.csrf, file |-> s3.file,
        sentCsrf |-> s1.csrf, sentCt0 |-> s.jar.ct0,
        saved |-> resp.kind \notin {"exc", "http"}]

\* Subtasks the server can name.  LoginEnterPassword stands also for
\* LoginJsInstrumentationSubtask, LoginEnterUserIdentifierSSO,
\* LoginEnterAlternateIdentifierSubtask and AccountDuplicationCheck: each
\* handler sends one request carrying prev_result['flow_token'].
PlainSubtasks == {"LoginEnterPassword"}

Subtasks ==
    PlainSubtasks
    \cup {"LoginTwoFactorAuthChallenge", "LoginAcid", "LoginSuccessSubtask",
          "DenyLoginSubtask", "UnknownSubtask", "none"}

Tokens == 1..NumTokens

\* What the server can answer to an onboarding-task request.  token is the
\* flow_token in the body (0: none), has2fa whether the error text contains
\* "2fa", subtask the first subtask named.
FlowResponses ==
    {[kind |-> "exc", ct0 |-> 0, token |-> 0, has2fa |-> FALSE, subtask |-> "none"]}
    \cup {[kind |-> k, ct0 |-> c, token |-> t, has2fa |-> h, subtask |-> "none"] :
            k \in {"http", "errors"}, c \in 0..NumCt0, t \in 0..NumTokens, h \in BOOLEAN}
    \cup {[kind |-> "ok", ct0 |-> c, token |-> 0, has2fa |-> FALSE, subtask |-> "none"] :
            c \in 0..NumCt0}
    \cup {[kind |-> "ok", ct0 |-> c, token |-> t, has2fa |-> FALSE, subtask |-> st] :
            c \in 0..NumCt0, t \in Tokens, st \in Subtasks}

\* why: for an error, "denied" (DenyLoginSubtask), "server" (a status >= 400
\* or an errors array) or "other".
NoResult == [status |-> "none", token |-> 0, subtask |-> "none", has2fa |-> FALSE,
             why |-> "none"]

\* The dict _execute_flow_task returns for a response.
FlowResult(resp) ==
    IF resp.kind \in {"exc", "http", "errors"}
    THEN [NoResult EXCEPT !.status = "error",
                          !.has2fa = resp.kind # "exc" /\ resp.has2fa,
                          !.why = IF resp.kind = "exc" THEN "other" ELSE "server"]
    ELSE IF resp.token = 0 THEN [NoResult EXCEPT !.status = "error", !.why = "other"]
    ELSE IF resp.subtask = "DenyLoginSubtask"
    THEN [NoResult EXCEPT !.status = "error", !.why = "denied"]
    ELSE IF resp.subtask \in {"none", "LoginSuccessSubtask"}
    THEN [NoResult EXCEPT !.status = "success", !.token = resp.token]
    ELSE [NoResult EXCEPT !.status = "continue", !.token = resp.token,
                          !.subtask = resp.subtask]

\* self.flow_token after a response: assigned when the response was taken
\* (status ok, no errors, a flow_token in it)
FlowTokenAfter(old, resp) ==
    IF resp.kind = "ok" /\ resp.token # 0 THEN resp.token ELSE old

MutHandlerToken(prev) == IF prev.token = 1 THEN NumTokens ELSE 1

\* prev_result['flow_token'] in the request of a subtask handler
HandlerToken(prev) == prev.token

\* `for attempt in range(3)` of _handle_2fa
TwoFactorAttempts == 3

\* of a 2FA result: `status != 'error' or '2fa' not in error.lower()`
TwoFactorReturns(result) == result.status # "error" \/ ~result.has2fa

VARIABLES
    a_cfg,         \* TWITTER_AUTH_CONFIG: totp_secret ("none", "ok", "bad"), email set
    cookie_file,   \* twitter_cookies/<username>_cookies.json
    cookies,       \* session.cookies of the current TwitterHTTPSession
    csrf_header,   \* session.headers['x-csrf-token'] (0: not set)
    apc,           \* where XAuthClientSync.get_user_tweets is
    guest_token,   \* TwitterAuthFlow.guest_token is set
    flow_result,   \* flow_result of login_user
    flow_token,    \* TwitterAuthFlow.flow_token (0: None)
    codes,         \* 2FA codes submitted for the current challenge
    request_count, \* request_count of _fetch_user_tweets
    srvToken,      \* history: the flow_token of the latest response that had one
    lastReq,       \* history: the request sent last in this call
    outcome,       \* history: how the last call ended
    fatalSeen,     \* history: a login of this run ended on a deny or unknown subtask
    hist           \* history of the current call (wrote: the cookie file was written
                   \* after the warm-up and before the login's last response)

authVars == <<a_cfg, cookie_file, cookies, csrf_header, apc, guest_token, flow_result,
              flow_token, codes, request_count, srvToken, lastReq, outcome, fatalSeen,
              hist>>

NoReq == [kind |-> "none", csrfOk |-> TRUE, tokAccepted |-> TRUE, tokLatest |-> TRUE,
          afterFatal |-> FALSE]

NoHist == [stale |-> FALSE, reused |-> FALSE, verified |-> "none", warmed |-> FALSE,
           by |-> "none", wrote |-> FALSE, rejected2fa |-> FALSE, queryRejected |-> FALSE,
           onboarding |-> FALSE]

\* No XAuthClient was made.
AuthQuiet ==
    /\ a_cfg = "unused"
    /\ cookie_file = "unused"
    /\ cookies = "unused"
    /\ csrf_header = 0
    /\ apc = "unused"
    /\ guest_token = FALSE
    /\ flow_result = "unused"
    /\ flow_token = 0
    /\ codes = 0
    /\ request_count = 0
    /\ srvToken = 0
    /\ lastReq = "unused"
    /\ outcome = "none"
    /\ fatalSeen = FALSE
    /\ hist = "unused"

\* =========================================================================
\* PostCollector
\* =========================================================================

Strategies == {"nitter", "agent"}

\* Names TWITTER_CLIENT_PRIORITY can list; "scraper" (in the default value)
\* has no branch in PostCollector.
ClientTypes == Strategies \cup {"scraper"}

\* TWITTER_CLIENT_PRIORITY: the non-repeating lists of client types
PriorityLists ==
    {p \in UNION {[1..n -> ClientTypes] : n \in 1..MaxPriorityLen} :
        \A i, j \in 1..Len(p) : i # j => p[i] # p[j]}

\* What constructing and asking an XAgentClient can meet: the constructor
\* raises RuntimeError (CLI script or Node.js missing), is_available() is
\* False, or the client is usable.
AgentEnvs == {"ok", "ctor_raises", "unavailable"}

VARIABLES
    priority,    \* TWITTER_CLIENT_PRIORITY
    creds,       \* TWITTER_USERNAME and TWITTER_PASSWORD are set
    x_client,    \* type of PostCollector.x_client: "None", "NitterClient", "XAgentClient"
    nitter,      \* the NitterClient held in x_client
    pc,          \* where the collector is
    acct,        \* number of accounts started in collect_all_posts
    fbIdx,       \* position of the loop over TWITTER_CLIENT_PRIORITY in _try_fallback_clients
    posts,       \* posts of the current account
    raised,      \* an exception left _collect_posts_for_account
    now,         \* the clock
    attempted,   \* history: the strategy attempts of the current account
    reqs,        \* history: acquisition requests of the current account
    cli,         \* history: the CLI results of the agent call just made
    limitedAt,   \* history: when each instance last answered 429 to an acquisition
    fatalAt      \* history: when each strategy last failed fatally in the run

collectorVars == <<priority, creds, x_client, nitter, pc, acct, fbIdx, posts, raised,
                   now, attempted, reqs, cli, limitedAt, fatalAt>>

VARIABLES
    poolLog      \* history of the NitterClient of SpecPool: the instances that
                 \* answered the latest _check_instances with status 200 and
                 \* timeline items, the instances the latest get_user_tweets
                 \* asked, in order, whether one of them answered with a page
                 \* that was parsed, whether an exception left the call,
                 \* which of the two ran last, and instance_stats
                 \* as they were when it began

NoPoolLog == [probed |-> {}, tried |-> <<>>, answered |-> FALSE, raised |-> FALSE,
                last |-> "none", before |-> [i \in Instances |-> NoStats]]

\* -------------------------------------------------------------------------
\* XAuthClient._fetch_user_tweets: the pages of one user's timeline
\* -------------------------------------------------------------------------

\* what one entry of a timeline page can be: a tweet whose created_at carries
\* a zone (Twitter's own format, or ISO with a Z) or not (ISO without zone),
\* inside or outside the window; a tweet without a usable created_at; a tweet
\* entry whose content cannot be extracted; an entry that is not an object
TimelineKinds ==
    {"aware_in", "aware_out", "naive_in", "naive_out", "notime", "badcontent", "notdict"}

EntryLists == UNION {[1..n -> TimelineKinds] : n \in 0..MaxEntries}

\* what session.get(query_url) can bring back: an exception, a status that is
\* not ok, or a body with entries and possibly a bottom cursor with has_more
TimelineResponses ==
    {[kind |-> k, entries |-> <<>>, cursor |-> FALSE] : k \in {"exc", "http"}}
        \cup {[kind |-> "ok", entries |-> e, cursor |-> c] :
                  e \in EntryLists, c \in BOOLEAN}

\* how many tweets of the list `tweets` are dated inside the window, and how
\* many have no date
NoTweets == [inwin |-> 0, notime |-> 0]

NothingShown ==
    [inwin |-> 0, notime |-> 0, out |-> FALSE, aware |-> FALSE, malformed |-> FALSE]

\* one call of _fetch_user_tweets at its start:
\*   pc            "fetch" (inside the while loop) or "done" (returned)
\*   request_count request_count
\*   tweets        the list `tweets`, as counts per kind
\*   halt          history: which statement ended the loop
\*   shown         history: what the pages received so far contained
NewFetch ==
    [pc |-> "fetch", request_count |-> 0, tweets |-> NoTweets, halt |-> "none",
     shown |-> NothingShown]

VARIABLES
    timeline           \* the running call of _fetch_user_tweets, "idle" without one

timelineVars == <<timeline>>

TimelineQuiet == timeline = "idle"

\* -------------------------------------------------------------------------
\* Background collections: app.py's tasks and the scheduler's daily job
\* -------------------------------------------------------------------------

Tasks == 1..MaxTasks

\* app.py's global `collector` and the scheduler's own self.post_collector,
\* each with its own NitterClient
Collectors == {"app", "scheduler"}

IdleTask == [pc |-> "idle", collector |-> "app", account |-> 0, count |-> 0]

\* no collection triggered:
\*   tasks       per thread, where it is in collect_all_posts
\*   rl_tracker  per collector, rate_limit_tracker[instance] of one instance
\*   rl_events   history: calls of _record_rate_limit(instance) per collector
NoCollections ==
    [tasks |-> [t \in Tasks |-> IdleTask],
     rl_tracker |-> [c \in Collectors |-> [present |-> FALSE, count |-> 0]],
     rl_events |-> [c \in Collectors |-> 0]]

VARIABLES
    background     \* the threads of the background collections, "off" without the web service

tasksVars == <<background>>

TasksQuiet == background = "off"

\* -------------------------------------------------------------------------
\* AIClient: threads of posts
\* -------------------------------------------------------------------------

\* detect_and_group_threads(posts, time_threshold_minutes=5)
time_threshold_minutes == 5

\* the accounts the posts of a batch come from
ThreadAccounts ==
    {[platform |-> "twitter", author |-> "alice"],
     [platform |-> "twitter", author |-> "bob"],
     [platform |-> "linkedin", author |-> "alice"]}

\* post_time strings: an empty one, and three that _parse_post_time reads,
\* three minutes apart
PostTimeStrings ==
    {"", "2025-01-01T10:00:00", "2025-01-01T10:03:00", "2025-01-01T10:06:00"}

\* _parse_post_time: minutes since 10:00, or -1 for None (which is also where
\* merge_thread_content's `or datetime.min` puts such a post)
ParsePostTime(time_str) ==
    CASE time_str = "2025-01-01T10:00:00" -> 0
      [] time_str = "2025-01-01T10:03:00" -> 3
      [] time_str = "2025-01-01T10:06:00" -> 6
      [] OTHER -> -1

\* original_content as its lines; a line of a merged content starts with the
\* "i/N: " prefixes it was given, outermost first
Line(text) == [tags |-> <<>>, text |-> text]

RawContents == {<<>>, <<Line("x")>>, <<Line("y")>>}

NoId == [platform |-> "", author |-> "", digest |-> <<>>]

InputPosts ==
    {[platform |-> a.platform, author_username |-> a.author, post_time |-> t,
      original_content |-> c, thread_id |-> NoId, is_thread |-> FALSE,
      thread_count |-> 0, thread_posts |-> <<>>, post_time_range |-> <<>>,
      importance_score |-> "none"] :
        a \in ThreadAccounts, t \in PostTimeStrings, c \in RawContents}

Batches == UNION {[1..n -> InputPosts] : n \in 0..MaxPosts}

\* before batch_analyze(batch):
\*   posts    the argument `posts` of the last batch_analyze
\*   threads  history: what detect_and_group_threads returned in it
\*   results  analyzed_results of the last batch_analyze
\*   raised   whether it raised
\*   scored   whether analyze_importance gave scores in it
\*   runs     how many times batch_analyze ran
\*   first    history: analyzed_results of the first run
NewAggregation(batch) ==
    [posts |-> batch, threads |-> <<>>, results |-> <<>>, raised |-> FALSE,
     scored |-> FALSE, runs |-> 0, first |-> <<>>]

VARIABLES
    aggregation    \* the calls of batch_analyze on one batch, "off" without an AIClient

threadsVars == <<aggregation>>

ThreadsQuiet == aggregation = "off"

\* =========================================================================
\* What follows acquisition (deduplication against the sheets,
\* normalisation, storage): data
\* =========================================================================

Platforms == {"twitter", "linkedin"}

\* The platform cell of a sheet row as it was typed.
SheetPlatforms == {"Twitter", "twitter", "linkedin", ""}

\* str.lower()
Lower(p) == IF p = "Twitter" THEN "twitter" ELSE p

\* Values of post_id and post_url ("": missing or empty).
PostIdValues == {"", "a"}

PostUrlValues == {"", "u"}

\* Rows of a worksheet: its platform cell and its Post ID cell.
SheetRows == [platform : SheetPlatforms, post_id : PostIdValues]

\* What a worksheet holds when it is read: no row or one row.
Worksheets == {{}} \cup {{r} : r \in SheetRows}

\* get_existing_post_ids, as the set of (platform, id) it answers yes for
GetExistingPostIds(rows) ==
    {<<Lower(r.platform), r.post_id>> : r \in {x \in rows : x.platform # "" /\ x.post_id # ""}}

\* Posts _collect_posts_for_account returns for an account of platform p.
CollectedPosts(p) == [platform : {p}, post_id : PostIdValues, post_url : PostUrlValues]

CollectedBatches(p) == UNION {[1..n -> CollectedPosts(p)] : n \in 0..MaxPosts}

\* The part of a run after acquisition.  In a collection run: pc, the
\* operation, the existing-URL set and the merged existing-id sets read at
\* its start, the number of accounts gone through, and all_posts.
VARIABLES pipeline

pipelineVars == <<pipeline>>

\* No such run is going on.
PipelineQuiet == pipeline = "off"

\* The (platform, post_id) pairs a posts row can carry.
PostKeys == Platforms \X (PostIdValues \ {""})

\* Lists of posts handed to save_posts, each post by its pair.
SaveBatches == UNION {[1..n -> PostKeys] : n \in 0..MaxPosts}

\* A session outside save_posts.
NoSession == [pc |-> "idle", batch |-> <<>>, k |-> 0, pending |-> <<>>]

\* DatabaseManager._initialize_database on an empty database: the posts
\* table (the number of rows per pair; the table has no unique constraint)
\* and the session of each caller of save_posts.
NoRows == [table |-> [key \in PostKeys |-> 0], sessions |-> [t \in Tasks |-> NoSession]]

\* What a field of a raw item can be: no such key (or None), an empty
\* value, a value.
FieldValues == {"missing", "", "v"}

\* truthiness of a field
Given(x) == x \notin {"missing", ""}

\* An entry of the CLI's "tweets" array, by the keys the mapping of
\* get_user_tweets looks at; obj is FALSE for an entry that is not an
\* object.
AgentRawPosts ==
    {[obj |-> FALSE, id |-> "missing", post_id |-> "missing", author |-> "missing",
      author_username |-> "missing"]}
    \cup [obj : {TRUE}, id : FieldValues, post_id : FieldValues,
          author : {"missing", "v"}, author_username : FieldValues]

\* What a mapping gives for one item: a dict by its required keys, or
\* (obj FALSE) a value that is not a dict.
NotAPost == [obj |-> FALSE, platform |-> "missing", post_id |-> "missing",
             author_username |-> "missing"]

MappedPost(platform, post_id, author_username) ==
    [obj |-> TRUE, platform |-> platform, post_id |-> post_id,
     author_username |-> author_username]

\* An item of the Apify dataset: its id and the userName of its author
\* ("notdict": author is not an object; "other": another user's name).
ApifyRawTweets == [id : FieldValues, userName : FieldValues \cup {"notdict", "other"}]

\* A tweet_data handed to _convert_tweet_to_post.
AuthRawTweets == [id : FieldValues, rest_id : FieldValues]

RawBatches(items) == UNION {[1..n -> items] : n \in 0..MaxPosts}

\* Whether a raw entry carries what a post needs.
WellFormed(strategy, raw) ==
    CASE strategy = "agent" ->
            /\ raw.obj
            /\ Given(raw.post_id) \/ (raw.post_id = "missing" /\ Given(raw.id))
            /\ Given(raw.author_username)
                  \/ (raw.author_username = "missing" /\ Given(raw.author))
      [] strategy = "apify" -> Given(raw.id) /\ raw.userName = "v"
      [] OTHER -> Given(raw.id) \/ Given(raw.rest_id)

\* Whether a raw entry lacks something a post needs (a well-formed tweet of
\* another user, which the Apify mapping leaves out, is neither).
Malformed(strategy, raw) ==
    IF strategy = "apify" THEN ~Given(raw.id) \/ raw.userName \notin {"v", "other"}
    ELSE ~WellFormed(strategy, raw)

\* what a step of the collector leaves alone, what a step of a lone
\* NitterClient leaves alone, what a step of the authenticated client leaves
\* alone
nonCollectorVars == <<authVars, poolLog, timelineVars, tasksVars, threadsVars, pipelineVars>>

nonMirrorVars == <<authVars, timelineVars, tasksVars, threadsVars, pipelineVars>>

nonAuthVars == <<collectorVars, poolLog, timelineVars, tasksVars, threadsVars, pipelineVars>>

nonTimelineVars == <<collectorVars, authVars, poolLog, tasksVars, threadsVars, pipelineVars>>

nonTasksVars == <<collectorVars, authVars, poolLog, timelineVars, threadsVars, pipelineVars>>

nonThreadsVars == <<collectorVars, authVars, poolLog, timelineVars, tasksVars, pipelineVars>>

nonPipelineVars == <<collectorVars, authVars, poolLog, timelineVars, tasksVars, threadsVars>>

vars == <<collectorVars, authVars, poolLog, timelineVars, tasksVars, threadsVars, pipelineVars>>

Rank(s) ==
    IF \E k \in 1..Len(priority) : priority[k] = s
    THEN CHOOSE k \in 1..Len(priority) : priority[k] = s
    ELSE 0

\* _try_agent_client
TryAgentClient(env) == creds /\ env = "ok"

\* the loop of _initialize_twitter_client from position k on, started at
\* time t; the value is [x_client, nitter, t]
RECURSIVE InitializeFrom(_, _, _, _)
InitializeFrom(k, probe, env, t) ==
    IF k > Len(priority)
    THEN [x_client |-> "None", nitter |-> FreshClient, t |-> t]
    ELSE IF priority[k] = "nitter"
    THEN LET c == CheckInstances(FreshClient, probe, t) IN
         IF c.client.working_instances # <<>>
         THEN [x_client |-> "NitterClient", nitter |-> c.client, t |-> c.t]
         ELSE InitializeFrom(k + 1, probe, env, c.t)
    ELSE IF priority[k] = "agent"
    THEN IF TryAgentClient(env)
         THEN [x_client |-> "XAgentClient", nitter |-> FreshClient, t |-> t]
         ELSE InitializeFrom(k + 1, probe, env, t)
    ELSE InitializeFrom(k + 1, probe, env, t)

\* One entry of the attempt history: the strategy, whether its
\* get_user_tweets was called, whether that call came less than the base
\* delay after the strategy's last fatal failure, what it returned.
Attempt(s, invoked, at, ps, fatal, threw) ==
    [s |-> s, invoked |-> invoked,
     cooling |-> invoked /\ at < fatalAt[s] + InitialBackoff,
     posts |-> ps, fatal |-> fatal, threw |-> threw]

AgentFatal(c) == \E k \in 1..Len(c) : ~c[k].success /\ IsFallbackError(c[k].error)

\* `except Exception` of _try_agent_fallback
TryAgentFallbackCatches(e) == e \in {"RuntimeError", "TypeError", "AttributeError"}

MutCollectPostsForAccountCatches(e) == e = "RuntimeError"

\* `except Exception` of _collect_posts_for_account
CollectPostsForAccountCatches(e) == e \in {"RuntimeError", "TypeError", "AttributeError"}

\* _try_nitter_fallback started at time t: a new NitterClient, probed, then
\* asked.  The value is [posts, t, reqs, limits, invoked, at, cli, exc].
TryNitterFallback(probe, out, t) ==
    LET c == CheckInstances(FreshClient, probe, t) IN
    IF c.client.working_instances # <<>>
    THEN LET r == NitterGetUserTweets(c.client, out, c.t) IN
         [posts |-> r.posts, t |-> r.t, reqs |-> r.reqs, limits |-> r.limits,
          invoked |-> TRUE, at |-> c.t, cli |-> <<>>, exc |-> "none",
          threw |-> FALSE]
    ELSE [posts |-> <<>>, t |-> c.t, reqs |-> {}, limits |-> {},
          invoked |-> FALSE, at |-> c.t, cli |-> <<>>, exc |-> "none",
          threw |-> FALSE]

\* _try_agent_fallback started at time t
TryAgentFallback(env, results, t) ==
    LET none == [posts |-> <<>>, t |-> t, reqs |-> {}, limits |-> {},
                 invoked |-> FALSE, at |-> t, cli |-> <<>>, exc |-> "none",
                 threw |-> FALSE]
    IN IF ~creds THEN none
       ELSE IF env = "ctor_raises"
       THEN IF TryAgentFallbackCatches("RuntimeError")
            THEN [none EXCEPT !.threw = TRUE]
            ELSE [none EXCEPT !.threw = TRUE, !.exc = "RuntimeError"]
       ELSE IF env = "unavailable" THEN none
       ELSE LET a == AgentGetUserTweets(results) IN
            [posts |-> a.posts, t |-> t, reqs |-> {}, limits |-> {},
             invoked |-> TRUE, at |-> t, cli |-> a.cli,
             exc |-> IF TryAgentFallbackCatches(a.exc) THEN "none" ELSE a.exc,
             threw |-> a.exc # "none"]

\* a strategy call that was denied outright or rate limited
IsFatal(s, r) ==
    IF s = "agent" THEN AgentFatal(r.cli)
    ELSE r.limits # {} /\ r.posts = <<>>

\* bookkeeping of one strategy attempt r of strategy s
Recorded(s, r) ==
    /\ attempted' = Append(attempted,
                           Attempt(s, r.invoked, r.at, r.posts, IsFatal(s, r), r.threw))
    /\ reqs' = reqs \cup {[inst |-> q.inst,
                             cooling |-> q.at < limitedAt[q.inst] + rate_limit_cooldown] :
                            q \in r.reqs}
    /\ cli' = r.cli
    /\ limitedAt' = [i \in Instances |->
                        IF \E l \in r.limits : l.inst = i
                        THEN (CHOOSE l \in r.limits : l.inst = i).at
                        ELSE limitedAt[i]]
    /\ fatalAt' = IF IsFatal(s, r) THEN [fatalAt EXCEPT ![s] = r.t] ELSE fatalAt
    /\ now' = r.t

\* Only differences of clock readings are ever used.  A reading d seconds
\* old is written relative to the new origin; readings older than the
\* horizon behave alike and are kept at the horizon.
Rebase(stamp, d, horizon) == Max(stamp - d, 0 - horizon)

RebaseClient(c, d) ==
    [c EXCEPT
       !.last_instance_check =
           IF @ = <<>> THEN @ ELSE <<Rebase(@[1], d, instance_check_interval + 1)>>,
       !.rate_limit_tracker =
           [i \in Instances |->
              IF @[i].present
              THEN [@[i] EXCEPT !.last_rate_limit = Rebase(@, d, rate_limit_cooldown)]
              ELSE @[i]]]

Init ==
    /\ priority \in PriorityLists
    /\ creds \in BOOLEAN
    /\ x_client = "None"
    /\ nitter = FreshClient
    /\ pc = "construct"
    /\ acct = 0
    /\ fbIdx = 0
    /\ posts = <<>>
    /\ raised = FALSE
    /\ now = 0
    /\ attempted = <<>>
    /\ reqs = {}
    /\ cli = <<>>
    /\ limitedAt = [i \in Instances |-> 0 - rate_limit_cooldown]
    /\ fatalAt = [s \in Strategies |-> 0 - InitialBackoff]
    /\ AuthQuiet
    /\ poolLog = "unused"
    /\ TimelineQuiet
    /\ TasksQuiet
    /\ ThreadsQuiet
    /\ PipelineQuiet

\* PostCollector.__init__ -> _initialize_twitter_client
Construct ==
    /\ pc = "construct"
    /\ \E probe \in [Instances -> ProbeOutcomes], env \in AgentEnvs :
         LET r == InitializeFrom(1, probe, env, now) IN
         /\ x_client' = r.x_client
         /\ nitter' = r.nitter
         /\ now' = r.t
    /\ pc' = "idle"
    /\ UNCHANGED <<priority, creds, acct, fbIdx, posts, raised, attempted, reqs, cli,
                   limitedAt, fatalAt>>
    /\ UNCHANGED nonCollectorVars

\* collect_all_posts takes the next account and enters
\* _collect_twitter_posts_with_fallback; the clock is read from here
StartAccount ==
    /\ pc = "idle"
    /\ acct < NumAccounts
    /\ acct' = acct + 1
    /\ attempted' = <<>>
    /\ posts' = <<>>
    /\ reqs' = {}
    /\ cli' = <<>>
    /\ fbIdx' = 1
    /\ pc' = IF x_client = "None" THEN "loop" ELSE "primary"
    /\ now' = 0
    /\ nitter' = RebaseClient(nitter, now)
    /\ limitedAt' = [i \in Instances |-> Rebase(limitedAt[i], now, rate_limit_cooldown)]
    /\ fatalAt' = [s \in Strategies |-> Rebase(fatalAt[s], now, InitialBackoff)]
    /\ UNCHANGED <<priority, creds, x_client, raised>>
    /\ UNCHANGED nonCollectorVars

MutPrimarySucceeded(p) == FALSE

\* `if posts:` after the primary client's get_user_tweets
PrimarySucceeded(p) == p # <<>>

\* the primary client is a NitterClient
TryPrimaryNitter ==
    /\ pc = "primary"
    /\ x_client = "NitterClient"
    /\ \E out \in [Instances -> AcqOutcomes] :
         LET g == NitterGetUserTweets(nitter, out, now)
             r == [posts |-> g.posts, t |-> g.t, reqs |-> g.reqs, limits |-> g.limits,
                   invoked |-> TRUE, at |-> now, cli |-> <<>>, exc |-> "none",
                   threw |-> FALSE]
         IN /\ Recorded("nitter", r)
            /\ nitter' = [nitter EXCEPT !.rate_limit_tracker = g.tracker]
            /\ posts' = g.posts
            /\ pc' = IF PrimarySucceeded(g.posts) THEN "tag" ELSE "fallback"
    /\ UNCHANGED <<priority, creds, x_client, acct, fbIdx, raised>>
    /\ UNCHANGED nonCollectorVars

\* the primary client is an XAgentClient
TryPrimaryAgent ==
    /\ pc = "primary"
    /\ x_client = "XAgentClient"
    /\ \E results \in [1..max_retries -> CliResults] :
         LET a == AgentGetUserTweets(results)
             r == [posts |-> a.posts, t |-> now, reqs |-> {}, limits |-> {},
                   invoked |-> TRUE, at |-> now, cli |-> a.cli, exc |-> "none",
                   threw |-> a.exc # "none"]
         IN /\ Recorded("agent", r)
            /\ posts' = a.posts
            /\ pc' = IF PrimarySucceeded(a.posts) THEN "tag" ELSE "fallback"
    /\ UNCHANGED <<priority, creds, x_client, nitter, acct, fbIdx, raised>>
    /\ UNCHANGED nonCollectorVars

\* what _collect_posts_for_account does with the outcome r of a fallback
\* call: an exception that escaped the call skips the rest of the try block
AfterFallback(r, next) ==
    IF r.exc = "none"
    THEN /\ posts' = r.posts
         /\ pc' = next
         /\ raised' = raised
    ELSE /\ posts' = <<>>
         /\ pc' = "idle"
         /\ raised' = ~CollectPostsForAccountCatches(r.exc)

\* _try_fallback_clients, current client XAgentClient
FallbackToNitter ==
    /\ pc = "fallback"
    /\ x_client = "XAgentClient"
    /\ \E probe \in [Instances -> ProbeOutcomes], out \in [Instances -> AcqOutcomes] :
         LET r == TryNitterFallback(probe, out, now) IN
         /\ Recorded("nitter", r)
         /\ AfterFallback(r, "tag")
    /\ UNCHANGED <<priority, creds, x_client, nitter, acct, fbIdx>>
    /\ UNCHANGED nonCollectorVars

\* _try_fallback_clients, current client NitterClient
FallbackToAgent ==
    /\ pc = "fallback"
    /\ x_client = "NitterClient"
    /\ \E env \in AgentEnvs, results \in [1..max_retries -> CliResults] :
         LET r == TryAgentFallback(env, results, now) IN
         /\ Recorded("agent", r)
         /\ AfterFallback(r, "tag")
    /\ UNCHANGED <<priority, creds, x_client, nitter, acct, fbIdx>>
    /\ UNCHANGED nonCollectorVars

\* `if posts: break`, else the next client type, if any
LoopNext(p) ==
    IF p # <<>> \/ fbIdx = Len(priority) THEN "tag" ELSE "loop"

\* _try_fallback_clients without a current client: one pass of the loop
LoopAgent ==
    /\ pc = "loop"
    /\ priority[fbIdx] = "agent"
    /\ \E env \in AgentEnvs, results \in [1..max_retries -> CliResults] :
         LET r == TryAgentFallback(env, results, now) IN
         /\ Recorded("agent", r)
         /\ AfterFallback(r, LoopNext(r.posts))
         /\ fbIdx' = IF LoopNext(r.posts) = "loop" THEN fbIdx + 1 ELSE fbIdx
    /\ UNCHANGED <<priority, creds, x_client, nitter, acct>>
    /\ UNCHANGED nonCollectorVars

LoopNitter ==
    /\ pc = "loop"
    /\ priority[fbIdx] = "nitter"
    /\ \E probe \in [Instances -> ProbeOutcomes], out \in [Instances -> AcqOutcomes] :
         LET r == TryNitterFallback(probe, out, now) IN
         /\ Recorded("nitter", r)
         /\ AfterFallback(r, LoopNext(r.posts))
         /\ fbIdx' = IF LoopNext(r.posts) = "loop" THEN fbIdx + 1 ELSE fbIdx
    /\ UNCHANGED <<priority, creds, x_client, nitter, acct>>
    /\ UNCHANGED nonCollectorVars

\* a client type with no branch: posts keeps its value
LoopUnknown ==
    /\ pc = "loop"
    /\ priority[fbIdx] \notin Strategies
    /\ pc' = LoopNext(posts)
    /\ fbIdx' = IF LoopNext(posts) = "loop" THEN fbIdx + 1 ELSE fbIdx
    /\ cli' = <<>>
    /\ UNCHANGED <<priority, creds, x_client, nitter, acct, posts, raised, now,
                   attempted, reqs, limitedAt, fatalAt>>
    /\ UNCHANGED nonCollectorVars

\* `for post in posts: post['category'] = ...`: item assignment on a
\* non-object raises TypeError and ends the loop
RECURSIVE TagFrom(_, _, _)
TagFrom(ps, k, stopped) ==
    IF k > Len(ps) THEN <<>>
    ELSE LET bad == stopped \/ ps[k].kind # "obj" IN
         <<IF bad THEN ps[k] ELSE [ps[k] EXCEPT !.category = TRUE]>>
         \o TagFrom(ps, k + 1, bad)

\* the end of _collect_posts_for_account
TagCategory ==
    /\ pc = "tag"
    /\ posts' = TagFrom(posts, 1, FALSE)
    /\ raised' = IF \E k \in 1..Len(posts) : posts[k].kind # "obj"
                 THEN ~CollectPostsForAccountCatches("TypeError")
                 ELSE raised
    /\ pc' = "idle"
    /\ cli' = <<>>
    /\ UNCHANGED <<priority, creds, x_client, nitter, acct, fbIdx, now, attempted,
                   reqs, limitedAt, fatalAt>>
    /\ UNCHANGED nonCollectorVars

\* time passes between two accounts
Elapse ==
    /\ pc = "idle"
    /\ now + rate_limit_cooldown <= MaxTime
    /\ now' = now + rate_limit_cooldown
    /\ UNCHANGED <<priority, creds, x_client, nitter, pc, acct, fbIdx, posts, raised,
                   attempted, reqs, cli, limitedAt, fatalAt>>
    /\ UNCHANGED nonCollectorVars

Next ==
    \/ Construct
    \/ StartAccount
    \/ TryPrimaryNitter
    \/ TryPrimaryAgent
    \/ FallbackToNitter
    \/ FallbackToAgent
    \/ LoopAgent
    \/ LoopNitter
    \/ LoopUnknown
    \/ TagCategory
    \/ Elapse

Spec == Init /\ [][Next]_vars

\* =========================================================================
\* One NitterClient on its own: test_connection, get_user_tweets, the clock
\* =========================================================================

MirrorInit ==
    /\ priority = <<"nitter">>
    /\ creds = FALSE
    /\ x_client = "NitterClient"
    /\ nitter = FreshClient
    /\ pc = "mirror"
    /\ acct = 0
    /\ fbIdx = 0
    /\ posts = <<>>
    /\ raised = FALSE
    /\ now = 0
    /\ attempted = <<>>
    /\ reqs = {}
    /\ cli = <<>>
    /\ limitedAt = [i \in Instances |-> 0 - rate_limit_cooldown]
    /\ fatalAt = [s \in Strategies |-> 0 - InitialBackoff]
    /\ AuthQuiet
    /\ poolLog = "unused"
    /\ TimelineQuiet
    /\ TasksQuiet
    /\ ThreadsQuiet
    /\ PipelineQuiet

ProbeCount(c) ==
    LET s == c.instance_stats[InstanceList[1]] IN s.success_count + s.fail_count

\* the condition of _get_working_instance for probing again
CheckDue(c, t) ==
    IF c.working_instances = <<>> \/ c.last_instance_check = <<>>
    THEN TRUE
    ELSE t - c.last_instance_check[1] > instance_check_interval

\* In this specification the clock's origin moves to the present after
\* every step: a step that ends at time t leaves now = 0 and every stamp
\* t seconds older.
Settled(c, t) ==
    /\ nitter' = RebaseClient(c, t)
    /\ now' = 0

\* test_connection -> _get_working_instance -> _check_instances
MirrorTestConnection ==
    /\ pc = "mirror"
    /\ CheckDue(nitter, now)
    /\ ProbeCount(nitter) < MaxProbes
    /\ \E probe \in [Instances -> ProbeOutcomes] :
         LET c == CheckInstances(nitter, probe, now) IN
         /\ Settled(c.client, c.t)
         /\ limitedAt' = [i \in Instances |-> Rebase(limitedAt[i], c.t, rate_limit_cooldown)]
    /\ UNCHANGED <<priority, creds, x_client, pc, acct, fbIdx, posts, raised,
                   attempted, reqs, cli, fatalAt, poolLog>>
    /\ UNCHANGED nonMirrorVars

\* get_user_tweets
MirrorGetUserTweets ==
    /\ pc = "mirror"
    /\ \A i \in Instances : nitter.rate_limit_tracker[i].count < MaxLimitCount
    /\ \E out \in [Instances -> AcqOutcomes] :
         LET g == NitterGetUserTweets(nitter, out, now) IN
         \* an instance that is not asked has no answer to vary
         /\ \A i \in Instances \ Range(nitter.working_instances) :
               out[i] = [kind |-> "error", n |-> 0]
         /\ Settled([nitter EXCEPT !.rate_limit_tracker = g.tracker], g.t)
         /\ posts' = g.posts
         /\ reqs' = {[inst |-> q.inst,
                      cooling |-> q.at < limitedAt[q.inst] + rate_limit_cooldown] :
                     q \in g.reqs}
         /\ limitedAt' = [i \in Instances |->
                             Rebase(IF \E l \in g.limits : l.inst = i
                                    THEN (CHOOSE l \in g.limits : l.inst = i).at
                                    ELSE limitedAt[i],
                                    g.t, rate_limit_cooldown)]
    /\ UNCHANGED <<priority, creds, x_client, pc, acct, fbIdx, raised, attempted,
                   cli, fatalAt, poolLog>>
    /\ UNCHANGED nonMirrorVars

\* time passes
MirrorElapse ==
    /\ pc = "mirror"
    /\ Settled(nitter, rate_limit_cooldown)
    /\ limitedAt' = [i \in Instances |->
                        Rebase(limitedAt[i], rate_limit_cooldown, rate_limit_cooldown)]
    /\ UNCHANGED <<priority, creds, x_client, pc, acct, fbIdx, posts, raised,
                   attempted, reqs, cli, fatalAt, poolLog>>
    /\ UNCHANGED nonMirrorVars

MirrorNext ==
    \/ MirrorTestConnection
    \/ MirrorGetUserTweets
    \/ MirrorElapse

SpecMirror == MirrorInit /\ [][MirrorNext]_vars

\* =========================================================================
\* One NitterClient and what its probes and calls met: _check_instances,
\* get_user_tweets, the clock
\* =========================================================================

PoolInit ==
    /\ priority = <<"nitter">>
    /\ creds = FALSE
    /\ x_client = "NitterClient"
    /\ nitter = FreshClient
    /\ pc = "pool"
    /\ acct = 0
    /\ fbIdx = 0
    /\ posts = <<>>
    /\ raised = FALSE
    /\ now = 0
    /\ attempted = <<>>
    /\ reqs = {}
    /\ cli = <<>>
    /\ limitedAt = [i \in Instances |-> 0 - rate_limit_cooldown]
    /\ fatalAt = [s \in Strategies |-> 0 - InitialBackoff]
    /\ AuthQuiet
    /\ poolLog = NoPoolLog
    /\ TimelineQuiet
    /\ TasksQuiet
    /\ ThreadsQuiet
    /\ PipelineQuiet

\* test_connection -> _get_working_instance -> _check_instances
PoolTestConnection ==
    /\ pc = "pool"
    /\ CheckDue(nitter, now)
    /\ ProbeCount(nitter) < MaxProbes
    /\ \E probe \in [Instances -> ProbeOutcomes] :
         LET c == CheckInstances(nitter, probe, now) IN
         /\ Settled(c.client, c.t)
         /\ poolLog' = [poolLog EXCEPT
                          !.probed = {i \in Instances : probe[i].kind = "content"},
                          !.before = nitter.instance_stats,
                          !.last = "check"]
    /\ UNCHANGED <<priority, creds, x_client, pc, acct, fbIdx, posts, raised,
                   attempted, reqs, cli, limitedAt, fatalAt>>
    /\ UNCHANGED nonMirrorVars

\* get_user_tweets
PoolGetUserTweets ==
    /\ pc = "pool"
    /\ \A i \in Instances : nitter.rate_limit_tracker[i].count < MaxPoolLimits
    /\ \E out \in [Instances -> AcqOutcomes] :
         LET g == NitterGetUserTweets(nitter, out, now) IN
         \* an instance that is not asked has no answer to vary
         /\ \A i \in Instances \ Range(nitter.working_instances) :
               out[i] = [kind |-> "error", n |-> 0]
         /\ Settled([nitter EXCEPT !.rate_limit_tracker = g.tracker], g.t)
         /\ posts' = g.posts
         /\ poolLog' = [poolLog EXCEPT
                          !.tried = [k \in 1..Cardinality(g.reqs) |->
                                       (CHOOSE q \in g.reqs : q.ord = k).inst],
                          !.answered = \E q \in g.reqs :
                                          q.ord = Cardinality(g.reqs)
                                          /\ out[q.inst].kind = "ok",
                          !.raised = g.raised,
                          !.before = nitter.instance_stats,
                          !.last = "get"]
    /\ UNCHANGED <<priority, creds, x_client, pc, acct, fbIdx, raised, attempted,
                   reqs, cli, limitedAt, fatalAt>>
    /\ UNCHANGED nonMirrorVars

\* time passes
PoolElapse ==
    /\ pc = "pool"
    /\ Settled(nitter, rate_limit_cooldown)
    /\ UNCHANGED <<priority, creds, x_client, pc, acct, fbIdx, posts, raised,
                   attempted, reqs, cli, limitedAt, fatalAt, poolLog>>
    /\ UNCHANGED nonMirrorVars

PoolNext ==
    \/ PoolTestConnection
    \/ PoolGetUserTweets
    \/ PoolElapse

SpecPool == PoolInit /\ [][PoolNext]_vars

\* =========================================================================
\* XAuthClientSync.get_user_tweets: XAuthClient.initialize, the login flow,
\* the queries, close
\* =========================================================================

\* The collector is not part of this specification.
CollectorQuiet ==
    /\ priority = <<"nitter">>
    /\ creds = FALSE
    /\ x_client = "None"
    /\ nitter = FreshClient
    /\ pc = "auth"
    /\ acct = 0
    /\ fbIdx = 0
    /\ posts = <<>>
    /\ raised = FALSE
    /\ now = 0
    /\ attempted = <<>>
    /\ reqs = {}
    /\ cli = <<>>
    /\ limitedAt = [i \in Instances |-> 0 - rate_limit_cooldown]
    /\ fatalAt = [s \in Strategies |-> 0 - InitialBackoff]

\* Before the first call of a run: no cookie file, or the file a login of an
\* earlier run left.
AuthInit ==
    /\ CollectorQuiet
    /\ a_cfg \in [totp : {"none", "ok", "bad"}, email : BOOLEAN]
    /\ cookie_file \in {NoFile, [exists |-> TRUE, age |-> 0, jar |-> [auth |-> TRUE, ct0 |-> 1]]}
    /\ cookies = EmptyJar
    /\ csrf_header = 0
    /\ apc = "idle"
    /\ guest_token = FALSE
    /\ flow_result = NoResult
    /\ flow_token = 0
    /\ codes = 0
    /\ request_count = 0
    /\ srvToken = 0
    /\ lastReq = NoReq
    /\ outcome = "none"
    /\ fatalSeen = FALSE
    /\ hist = NoHist
    /\ poolLog = "unused"
    /\ TimelineQuiet
    /\ TasksQuiet
    /\ ThreadsQuiet
    /\ PipelineQuiet

LoginPhases == {"warm1", "warm2", "guest", "init", "flow", "twofa"}

FailOutcomes == {"guestfail", "denied", "unknown", "autherror", "twofa", "failed"}

Sess == [jar |-> cookies, csrf |-> csrf_header, file |-> cookie_file]

SetSess(s) ==
    /\ cookies' = s.jar
    /\ csrf_header' = s.csrf
    /\ cookie_file' = s.file

\* the record of a request r that went out carrying flow token tok (0: none)
Sent(kind, r, tok) ==
    [kind |-> kind,
     csrfOk |-> r.sentCsrf = r.sentCt0,
     tokAccepted |-> tok = 0 \/ tok = flow_token,
     tokLatest |-> tok = 0 \/ tok = srvToken,
     afterFatal |-> fatalSeen]

\* An exception leaves login_user, _login, initialize and __aenter__; the
\* session is not closed.
Fail(kind) ==
    /\ apc' = "idle"
    /\ outcome' = kind
    /\ fatalSeen' = (fatalSeen \/ kind \in {"denied", "unknown"})

\* XAuthClientSync.get_user_tweets -> __aenter__ -> initialize, up to
\* is_logged_in: a new TwitterHTTPSession and a new TwitterAuthFlow
StartCall ==
    /\ apc = "idle"
    /\ LET s == NewSession(cookie_file) IN
       /\ SetSess(s)
       /\ hist' = [NoHist EXCEPT
                     !.stale = cookie_file.exists /\ cookie_file.age > cookie_cache_days,
                     !.reused = IsLoggedIn(s.jar)]
       /\ apc' = IF IsLoggedIn(s.jar) THEN "verify" ELSE "warm1"
    /\ guest_token' = FALSE
    /\ flow_result' = NoResult
    /\ flow_token' = 0
    /\ codes' = 0
    /\ request_count' = 0
    /\ srvToken' = 0
    /\ lastReq' = NoReq
    /\ outcome' = "none"
    /\ UNCHANGED <<a_cfg, fatalSeen>>
    /\ UNCHANGED nonAuthVars

MutVerifyFailed(s) == s

\* initialize, verify_login returned False: self.session.clear_cookies()
VerifyFailed(s) == ClearCookies(s)

\* verify_login and what initialize does with its value
VerifyLogin ==
    /\ apc = "verify"
    /\ \E resp \in PlainResponses :
         LET r == Request(Sess, resp, FALSE)
             ok == resp.kind = "ok"
         IN /\ SetSess(IF ok THEN r ELSE VerifyFailed(r))
            /\ lastReq' = Sent("verify", r, 0)
            /\ hist' = [hist EXCEPT !.verified = IF ok THEN "ok" ELSE "failed",
                                    !.by = IF ok THEN "cache" ELSE "none"]
            /\ apc' = IF ok THEN "lookup" ELSE "warm1"
    /\ UNCHANGED <<a_cfg, guest_token, flow_result, flow_token, codes, request_count,
                   srvToken, outcome, fatalSeen>>
    /\ UNCHANGED nonAuthVars

\* _warm_up_session: GET https://x.com; an exception ends the warm-up
WarmUpHome ==
    /\ apc = "warm1"
    /\ \E resp \in PlainResponses :
         LET r == Request(Sess, resp, FALSE) IN
         /\ SetSess(r)
         /\ lastReq' = Sent("warmup", r, 0)
         /\ hist' = [hist EXCEPT !.warmed = TRUE]
         /\ apc' = IF resp.kind = "exc" THEN "guest" ELSE "warm2"
    /\ UNCHANGED <<a_cfg, guest_token, flow_result, flow_token, codes, request_count,
                   srvToken, outcome, fatalSeen>>
    /\ UNCHANGED nonAuthVars

\* _warm_up_session: GET https://x.com/i/flow/login
WarmUpLoginPage ==
    /\ apc = "warm2"
    /\ \E resp \in PlainResponses :
         LET r == Request(Sess, resp, FALSE) IN
         /\ SetSess(r)
         /\ lastReq' = Sent("warmup", r, 0)
         /\ apc' = "guest"
    /\ UNCHANGED <<a_cfg, guest_token, flow_result, flow_token, codes, request_count,
                   srvToken, outcome, fatalSeen, hist>>
    /\ UNCHANGED nonAuthVars

MutGuestOk(resp) == TRUE

\* authenticate_guest goes on: response.ok and a guest_token in the body
GuestOk(resp) == resp.kind = "ok"

\* authenticate_guest (self.guest_token is None in a new TwitterAuthFlow)
AuthenticateGuest ==
    /\ apc = "guest"
    /\ \E resp \in PlainResponses :
         LET r == Request(UpdateCsrfToken(Sess), resp, FALSE) IN
         /\ lastReq' = Sent("guest", r, 0)
         /\ hist' = [hist EXCEPT !.wrote = @ \/ r.saved]
         /\ guest_token' = (resp.kind = "ok")
         /\ IF GuestOk(resp)
            THEN /\ SetSess(UpdateCsrfToken(r))
                 /\ apc' = "init"
                 /\ UNCHANGED <<outcome, fatalSeen>>
            ELSE /\ SetSess(r)
                 /\ Fail("guestfail")
    /\ UNCHANGED <<a_cfg, flow_result, flow_token, codes, request_count, srvToken>>
    /\ UNCHANGED nonAuthVars

\* The top of the `while` loop of login_user and what follows it, for a
\* flow result: [apc, outcome] (outcome "none": the call goes on).
Dispatch(result) ==
    CASE result.status = "success" -> [apc |-> "lookup", outcome |-> "none"]
      [] result.status = "error" ->
           [apc |-> "idle",
            outcome |-> CASE result.why = "denied" -> "denied"
                          [] result.why = "server" -> "autherror"
                          [] OTHER -> "failed"]
      [] result.subtask \in PlainSubtasks -> [apc |-> "flow", outcome |-> "none"]
      [] result.subtask = "LoginTwoFactorAuthChallenge" ->
           IF a_cfg.totp = "none" THEN [apc |-> "idle", outcome |-> "failed"]
           ELSE [apc |-> "twofa", outcome |-> "none"]
      [] result.subtask = "LoginAcid" ->
           IF a_cfg.email THEN [apc |-> "flow", outcome |-> "none"]
           ELSE [apc |-> "idle", outcome |-> "failed"]
      [] OTHER -> [apc |-> "idle", outcome |-> "unknown"]

\* login_user goes on from flow result `result`
Advance(result) ==
    LET d == Dispatch(result) IN
    /\ flow_result' = result
    /\ IF d.outcome = "none"
       THEN /\ apc' = d.apc
            /\ UNCHANGED <<outcome, fatalSeen>>
       ELSE Fail(d.outcome)

\* _execute_flow_task on session s with a request carrying flow token tok
\* (0: the flow's first request), answered by resp
ExecuteFlowTask(s, tok, resp, twofa) ==
    LET result == FlowResult(resp)
        r == Request(s, resp, result.status = "success")
    IN /\ SetSess(r)
       /\ lastReq' = Sent(IF tok = 0 THEN "flowinit" ELSE "subtask", r, tok)
       /\ flow_token' = FlowTokenAfter(flow_token, resp)
       /\ srvToken' = IF resp.token # 0 THEN resp.token ELSE srvToken
       /\ hist' = [hist EXCEPT
                     !.onboarding = TRUE,
                     !.wrote = @ \/ (r.saved /\ result.status # "success"),
                     !.by = IF result.status = "success" THEN "flow" ELSE @,
                     !.rejected2fa = twofa /\ resp.kind \in {"http", "errors"}]

\* _init_login_flow: ct0 (among others) is popped from the jar, then the
\* first onboarding-task request
InitLoginFlow ==
    /\ apc = "init"
    /\ \E resp \in FlowResponses :
         /\ ExecuteFlowTask([Sess EXCEPT !.jar.ct0 = 0], 0, resp, FALSE)
         /\ Advance(FlowResult(resp))
         /\ codes' = 0
    /\ UNCHANGED <<a_cfg, guest_token, request_count>>
    /\ UNCHANGED nonAuthVars

\* a subtask handler other than _handle_2fa
HandleSubtask ==
    /\ apc = "flow"
    /\ \E resp \in FlowResponses :
         /\ ExecuteFlowTask(Sess, HandlerToken(flow_result), resp, FALSE)
         /\ Advance(FlowResult(resp))
         /\ codes' = 0
    /\ UNCHANGED <<a_cfg, guest_token, request_count>>
    /\ UNCHANGED nonAuthVars

\* _handle_2fa, one pass of its loop with a code submitted
HandleTwoFactor ==
    /\ apc = "twofa"
    /\ a_cfg.totp = "ok"
    /\ \E resp \in FlowResponses :
         LET result == FlowResult(resp) IN
         /\ ExecuteFlowTask(Sess, HandlerToken(flow_result), resp, TRUE)
         /\ IF TwoFactorReturns(result)
            THEN /\ Advance(result)
                 /\ codes' = IF Dispatch(result).apc = "twofa" THEN 0 ELSE codes + 1
            ELSE /\ flow_result' = flow_result
                 /\ codes' = codes + 1
                 /\ IF codes + 1 >= TwoFactorAttempts
                    THEN Fail("twofa")
                    ELSE /\ apc' = "twofa"
                         /\ UNCHANGED <<outcome, fatalSeen>>
    /\ UNCHANGED <<a_cfg, guest_token, request_count>>
    /\ UNCHANGED nonAuthVars

\* _handle_2fa with a secret pyotp cannot decode: totp.now() raises on each
\* of the three passes and the third exception leaves the handler
HandleTwoFactorBadSecret ==
    /\ apc = "twofa"
    /\ a_cfg.totp = "bad"
    /\ Fail("failed")
    /\ UNCHANGED <<a_cfg, cookie_file, cookies, csrf_header, guest_token, flow_result,
                   flow_token, codes, request_count, srvToken, lastReq, hist>>
    /\ UNCHANGED nonAuthVars

\* _get_user_id finds the user in the database cache
LookupCached ==
    /\ apc = "lookup"
    /\ apc' = "fetch"
    /\ UNCHANGED <<a_cfg, cookie_file, cookies, csrf_header, guest_token, flow_result,
                   flow_token, codes, request_count, srvToken, lastReq, outcome,
                   fatalSeen, hist>>
    /\ UNCHANGED nonAuthVars

\* _get_user_id asks the server; without a user id get_user_tweets returns
LookupUser ==
    /\ apc = "lookup"
    /\ \E resp \in PlainResponses :
         LET r == Request(Sess, resp, FALSE) IN
         /\ SetSess(r)
         /\ lastReq' = Sent("query", r, 0)
         /\ hist' = [hist EXCEPT !.queryRejected = @ \/ resp.kind = "http"]
         /\ apc' = IF resp.kind = "ok" THEN "fetch" ELSE "close"
    /\ UNCHANGED <<a_cfg, guest_token, flow_result, flow_token, codes, request_count,
                   srvToken, outcome, fatalSeen>>
    /\ UNCHANGED nonAuthVars

\* _fetch_user_tweets, one pass of its loop
FetchUserTweets ==
    /\ apc = "fetch"
    /\ \E resp \in PlainResponses, more \in BOOLEAN :
         LET r == Request(Sess, resp, FALSE) IN
         /\ SetSess(r)
         /\ lastReq' = Sent("query", r, 0)
         /\ hist' = [hist EXCEPT !.queryRejected = @ \/ resp.kind = "http"]
         /\ request_count' = request_count + 1
         /\ apc' = IF resp.kind = "ok" /\ more /\ request_count + 1 < max_requests
                   THEN "fetch" ELSE "close"
    /\ UNCHANGED <<a_cfg, guest_token, flow_result, flow_token, codes, srvToken,
                   outcome, fatalSeen>>
    /\ UNCHANGED nonAuthVars

\* __aexit__ -> close: save_cookies, and get_user_tweets returns
Close ==
    /\ apc = "close"
    /\ SetSess(SaveCookies(Sess))
    /\ apc' = "idle"
    /\ outcome' = "ok"
    /\ UNCHANGED <<a_cfg, guest_token, flow_result, flow_token, codes, request_count,
                   srvToken, lastReq, fatalSeen, hist>>
    /\ UNCHANGED nonAuthVars

\* a day passes between two calls
AgeCookieFile ==
    /\ apc = "idle"
    /\ cookie_file.exists
    /\ cookie_file.age < MaxAgeDays
    /\ cookie_file' = [cookie_file EXCEPT !.age = @ + 1]
    /\ UNCHANGED <<a_cfg, cookies, csrf_header, apc, guest_token, flow_result, flow_token,
                   codes, request_count, srvToken, lastReq, outcome, fatalSeen, hist>>
    /\ UNCHANGED nonAuthVars

AuthNext ==
    \/ StartCall
    \/ VerifyLogin
    \/ WarmUpHome
    \/ WarmUpLoginPage
    \/ AuthenticateGuest
    \/ InitLoginFlow
    \/ HandleSubtask
    \/ HandleTwoFactor
    \/ HandleTwoFactorBadSecret
    \/ LookupCached
    \/ LookupUser
    \/ FetchUserTweets
    \/ Close
    \/ AgeCookieFile

SpecAuth == AuthInit /\ [][AuthNext]_vars

\* The calls are sequential code: a step that can be taken is taken.
SpecAuthFair == AuthInit /\ [][AuthNext]_vars /\ WF_vars(AuthNext)

\* =========================================================================
\* XAuthClient._fetch_user_tweets
\* =========================================================================

TimelineInit ==
    /\ CollectorQuiet
    /\ AuthQuiet
    /\ poolLog = "unused"
    /\ TasksQuiet
    /\ ThreadsQuiet
    /\ PipelineQuiet
    /\ timeline = NewFetch

\* _extract_tweet_from_entry: the whole body is in a try, any failure gives None
ExtractTweetFromEntry(e) == IF e = "badcontent" THEN "none" ELSE e

\* parse_user_tweets_response: entry.get('entryId') and entry_id.startswith
\* are outside that try, so an entry that is not an object raises, and the
\* function turns it into a ValueError
ParseUserTweetsResponse(entries) ==
    IF \E i \in 1..Len(entries) : entries[i] = "notdict"
    THEN [raised |-> TRUE, tweets |-> <<>>]
    ELSE [raised |-> FALSE,
          tweets |-> SelectSeq(entries, LAMBDA e : ExtractTweetFromEntry(e) # "none")]

\* _parse_twitter_time: a datetime with a zone, one without, or None
ParseTwitterTime(e) ==
    CASE e \in {"aware_in", "aware_out"} -> "aware"
      [] e \in {"naive_in", "naive_out"} -> "naive"
      [] OTHER -> "none"

\* `tweet_time < cutoff_date` with cutoff_date = datetime.now() - timedelta:
\* a datetime with a zone cannot be compared with it
BeforeCutoff(e) ==
    CASE ParseTwitterTime(e) = "aware" -> "TypeError"
      [] e = "naive_out" -> "yes"
      [] OTHER -> "no"

Appended(acc, e) ==
    IF e = "notime" THEN [acc EXCEPT !.notime = @ + 1] ELSE [acc EXCEPT !.inwin = @ + 1]

\* the `for tweet in new_tweets` loop from element k on
RECURSIVE ScanTweets(_, _, _)
ScanTweets(new_tweets, k, acc) ==
    IF k > Len(new_tweets) THEN [tweets |-> acc, halt |-> "none"]
    ELSE LET e == new_tweets[k] IN
         CASE ParseTwitterTime(e) # "none" /\ BeforeCutoff(e) = "TypeError" ->
                  [tweets |-> acc, halt |-> "type_error"]
           [] ParseTwitterTime(e) # "none" /\ BeforeCutoff(e) = "yes" ->
                  [tweets |-> acc, halt |-> "out_of_window"]
           [] OTHER -> ScanTweets(new_tweets, k + 1, Appended(acc, e))

CountKind(entries, ks) == Cardinality({i \in 1..Len(entries) : entries[i] \in ks})

Shown(sh, entries) ==
    [inwin |-> sh.inwin + CountKind(entries, {"aware_in", "naive_in"}),
     notime |-> sh.notime + CountKind(entries, {"notime"}),
     out |-> sh.out \/ CountKind(entries, {"aware_out", "naive_out"}) > 0,
     aware |-> sh.aware \/ CountKind(entries, {"aware_in", "aware_out"}) > 0,
     malformed |-> sh.malformed \/ CountKind(entries, {"badcontent", "notdict"}) > 0]

\* one pass of the while loop, up to the statement that leaves it
FetchPass(resp, count, acc) ==
    LET parsed == ParseUserTweetsResponse(resp.entries)
        scan == ScanTweets(parsed.tweets, 1, acc)
    IN  CASE resp.kind = "exc" -> [tweets |-> acc, halt |-> "exception"]
          [] resp.kind = "http" -> [tweets |-> acc, halt |-> "http"]
          [] parsed.raised -> [tweets |-> acc, halt |-> "parse"]
          [] parsed.tweets = <<>> -> [tweets |-> acc, halt |-> "empty"]
          [] scan.halt # "none" -> scan
          [] ~resp.cursor -> [tweets |-> scan.tweets, halt |-> "no_cursor"]
          [] count + 1 >= max_requests -> [tweets |-> scan.tweets, halt |-> "max_requests"]
          [] OTHER -> scan

TimelineFetchPage ==
    /\ timeline.pc = "fetch"
    /\ timeline.request_count < max_requests
    /\ \E resp \in TimelineResponses :
         LET p == FetchPass(resp, timeline.request_count, timeline.tweets) IN
         timeline' =
             [pc |-> IF p.halt = "none" THEN "fetch" ELSE "done",
              request_count |-> timeline.request_count + 1,
              tweets |-> p.tweets,
              halt |-> p.halt,
              shown |-> IF resp.kind = "ok" THEN Shown(timeline.shown, resp.entries)
                        ELSE timeline.shown]
    /\ UNCHANGED nonTimelineVars

\* the next call of _fetch_user_tweets
TimelineFetchAgain ==
    /\ timeline.pc = "done"
    /\ timeline' = NewFetch
    /\ UNCHANGED nonTimelineVars

TimelineNext == TimelineFetchPage \/ TimelineFetchAgain

SpecTimeline == TimelineInit /\ [][TimelineNext]_vars

\* =========================================================================
\* Background collections
\* =========================================================================

TasksInit ==
    /\ CollectorQuiet
    /\ AuthQuiet
    /\ poolLog = "unused"
    /\ TimelineQuiet
    /\ ThreadsQuiet
    /\ PipelineQuiet
    /\ background = NoCollections

\* a strategy invocation for the task's account is in progress
InAccount(t) ==
    background.tasks[t].pc \in {"account", "rl_create", "rl_read", "rl_write"}

InRecordRateLimit(t) == background.tasks[t].pc \in {"rl_create", "rl_read", "rl_write"}

\* POST /trigger: background_tasks.add_task(run_collection_task), which runs
\* collector.collect_all_posts() in a worker thread
TriggerCollection(t) ==
    /\ background.tasks[t].pc = "idle"
    /\ background' = [background EXCEPT !.tasks[t] =
                         [pc |-> "loop", collector |-> "app", account |-> 1, count |-> 0]]
    /\ UNCHANGED nonTasksVars

\* the daily job (max_instances = 1): self.post_collector.collect_all_posts()
ExecuteDailyCollection(t) ==
    /\ background.tasks[t].pc = "idle"
    /\ \A u \in Tasks :
           background.tasks[u].pc = "idle" \/ background.tasks[u].collector # "scheduler"
    /\ background' = [background EXCEPT !.tasks[t] =
                         [pc |-> "loop", collector |-> "scheduler", account |-> 1,
                          count |-> 0]]
    /\ UNCHANGED nonTasksVars

\* collect_all_posts: `for account in accounts`, entering
\* _collect_posts_for_account, or leaving the loop after the last account
CollectPostsForAccount(t) ==
    /\ background.tasks[t].pc = "loop"
    /\ background' = [background EXCEPT !.tasks[t] =
                         IF @.account <= NumAccounts
                         THEN [@ EXCEPT !.pc = "account"] ELSE IdleTask]
    /\ UNCHANGED nonTasksVars

\* _collect_posts_for_account returns
AccountCollected(t) ==
    /\ background.tasks[t].pc = "account"
    /\ background' = [background EXCEPT !.tasks[t] =
                         [@ EXCEPT !.pc = "loop", !.account = @ + 1]]
    /\ UNCHANGED nonTasksVars

\* _record_rate_limit after a 429: `if instance not in self.rate_limit_tracker`
RecordRateLimitTest(t) ==
    LET c == background.tasks[t].collector IN
    /\ background.tasks[t].pc = "account"
    /\ background.rl_events[c] < MaxEvents
    /\ background' = [background EXCEPT
                         !.rl_events[c] = @ + 1,
                         !.tasks[t].pc = IF background.rl_tracker[c].present
                                         THEN "rl_read" ELSE "rl_create"]
    /\ UNCHANGED nonTasksVars

\* self.rate_limit_tracker[instance] = {'count': 0, ...}
RecordRateLimitCreate(t) ==
    /\ background.tasks[t].pc = "rl_create"
    /\ background' = [background EXCEPT
                         !.rl_tracker[background.tasks[t].collector] =
                             [present |-> TRUE, count |-> 0],
                         !.tasks[t].pc = "account"]
    /\ UNCHANGED nonTasksVars

\* tracker['count'] += 1, the load of the old value
RecordRateLimitRead(t) ==
    /\ background.tasks[t].pc = "rl_read"
    /\ background' = [background EXCEPT !.tasks[t] =
                         [@ EXCEPT !.pc = "rl_write",
                                   !.count = background.rl_tracker[
                                                 background.tasks[t].collector].count]]
    /\ UNCHANGED nonTasksVars

\* tracker['count'] += 1, the store of the new value
RecordRateLimitWrite(t) ==
    /\ background.tasks[t].pc = "rl_write"
    /\ background' = [background EXCEPT
                         !.rl_tracker[background.tasks[t].collector].count =
                             background.tasks[t].count + 1,
                         !.tasks[t] = [@ EXCEPT !.pc = "account", !.count = 0]]
    /\ UNCHANGED nonTasksVars

TasksNext ==
    \E t \in Tasks :
        \/ TriggerCollection(t)
        \/ ExecuteDailyCollection(t)
        \/ CollectPostsForAccount(t)
        \/ AccountCollected(t)
        \/ RecordRateLimitTest(t)
        \/ RecordRateLimitCreate(t)
        \/ RecordRateLimitRead(t)
        \/ RecordRateLimitWrite(t)

SpecTasks == TasksInit /\ [][TasksNext]_vars

\* =========================================================================
\* AIClient.batch_analyze
\* =========================================================================

ThreadsInit ==
    /\ CollectorQuiet
    /\ AuthQuiet
    /\ poolLog = "unused"
    /\ TimelineQuiet
    /\ TasksQuiet
    /\ PipelineQuiet
    /\ \E batch \in Batches : aggregation = NewAggregation(batch)

AuthorRank(a) == CASE a = "alice" -> 1 [] a = "bob" -> 2 [] OTHER -> 0

MutDetectSortLess(p, q) == FALSE

\* detect_and_group_threads: key (author_username, _parse_post_time(post_time))
DetectSortLess(p, q) ==
    \/ AuthorRank(p.author_username) < AuthorRank(q.author_username)
    \/ /\ p.author_username = q.author_username
       /\ ParsePostTime(p.post_time) < ParsePostTime(q.post_time)

\* that key compares None with a datetime when one author has a post with a
\* time and one without: TypeError
DetectSortRaises(batch) ==
    \E i, j \in 1..Len(batch) :
        /\ batch[i].author_username = batch[j].author_username
        /\ ParsePostTime(batch[i].post_time) < 0
        /\ ParsePostTime(batch[j].post_time) >= 0

\* merge_thread_content: key _parse_post_time(post_time) or datetime.min
MergeSortLess(p, q) == ParsePostTime(p.post_time) < ParsePostTime(q.post_time)

\* sorted(s, key=...): the stable order of s under the key of
\* detect_and_group_threads or that of merge_thread_content
StableSort(s, key) ==
    LET n == Len(s)
        Less(p, q) == IF key = "merge" THEN MergeSortLess(p, q) ELSE DetectSortLess(p, q)
        f == CHOOSE g \in [1..n -> 1..n] :
                 /\ \A i, j \in 1..n : i # j => g[i] # g[j]
                 /\ \A i, j \in 1..n :
                        i < j => /\ ~Less(s[g[j]], s[g[i]])
                                 /\ (~Less(s[g[i]], s[g[j]]) => g[i] < g[j])
    IN  [i \in 1..n |-> s[f[i]]]

\* detect_and_group_threads: the test that starts a new thread at sorted[k]
StartsThread(sorted, k) ==
    \/ k = 1
    \/ sorted[k - 1].author_username # sorted[k].author_username
    \/ ParsePostTime(sorted[k - 1].post_time) < 0
    \/ ParsePostTime(sorted[k].post_time) < 0
    \/ ParsePostTime(sorted[k].post_time) - ParsePostTime(sorted[k - 1].post_time)
           > time_threshold_minutes
    \/ ParsePostTime(sorted[k - 1].post_time) - ParsePostTime(sorted[k].post_time)
           > time_threshold_minutes

DetectAndGroupThreads(batch) ==
    LET sorted == StableSort(batch, "detect")
        starts == {k \in 1..Len(sorted) : StartsThread(sorted, k)}
        nth(j) == CHOOSE k \in starts : Cardinality({m \in starts : m <= k}) = j
        last(j) == IF j = Cardinality(starts) THEN Len(sorted) ELSE nth(j + 1) - 1
    IN  [j \in 1..Cardinality(starts) |-> SubSeq(sorted, nth(j), last(j))]

\* md5 of f"{platform}_{author}_{post_time}_{len(thread_posts)}", as the
\* values that go into it
GenerateThreadId(thread_posts) ==
    IF thread_posts = <<>> THEN NoId
    ELSE LET first_post == thread_posts[1] IN
         [platform |-> first_post.platform,
          author |-> first_post.author_username,
          digest |-> <<first_post.platform, first_post.author_username,
                       first_post.post_time, Len(thread_posts)>>]

MutSegmentNumber(i, kept) == kept

\* enumerate(sorted_posts, 1): the number a segment gets, i its place among
\* the posts and kept its place among the segments
SegmentNumber(i, kept) == i

\* f"{i}/{len(sorted_posts)}: {content}" for the posts whose content is not
\* empty, joined with newlines
RECURSIVE MergedContentFrom(_, _, _)
MergedContentFrom(sorted_posts, i, kept) ==
    IF i > Len(sorted_posts) THEN <<>>
    ELSE LET content == sorted_posts[i].original_content IN
         IF content = <<>> THEN MergedContentFrom(sorted_posts, i + 1, kept)
         ELSE <<[content[1] EXCEPT
                    !.tags = <<<<SegmentNumber(i, kept + 1), Len(sorted_posts)>>>> \o @]>>
                  \o Tail(content)
                  \o MergedContentFrom(sorted_posts, i + 1, kept + 1)

MergeThreadContent(thread_posts) ==
    IF Len(thread_posts) = 1 THEN thread_posts[1]
    ELSE LET sorted_posts == StableSort(thread_posts, "merge")
             first_post == sorted_posts[1]
             last_post == sorted_posts[Len(sorted_posts)]
         IN  [first_post EXCEPT
                 !.original_content = MergedContentFrom(sorted_posts, 1, 0),
                 !.is_thread = TRUE,
                 !.thread_count = Len(thread_posts),
                 !.thread_posts = thread_posts,
                 !.post_time_range = <<first_post.post_time, last_post.post_time>>]

\* _analyze_single_post: None for an empty content or a missing score
AnalyzeSinglePost(post, scored) ==
    IF post.original_content = <<>> \/ ~scored
    THEN [ok |-> FALSE, post |-> post]
    ELSE [ok |-> TRUE, post |-> [post EXCEPT !.importance_score = "scored"]]

\* batch_analyze: the body of `for thread_posts in threads`
AnalyzeThread(thread_posts, scored) ==
    LET thread_id == GenerateThreadId(thread_posts) IN
    IF Len(thread_posts) = 1
    THEN AnalyzeSinglePost([thread_posts[1] EXCEPT !.thread_id = thread_id], scored)
    ELSE LET merged_thread == [MergeThreadContent(thread_posts) EXCEPT
                                  !.thread_id = thread_id]
             thread_analysis == AnalyzeSinglePost(merged_thread, scored)
         IN  [thread_analysis EXCEPT
                 !.post = [@ EXCEPT !.is_thread = TRUE,
                                    !.thread_count = Len(thread_posts),
                                    !.thread_posts = thread_posts]]

RECURSIVE AnalyzedFrom(_, _, _)
AnalyzedFrom(threads, k, scored) ==
    IF k > Len(threads) THEN <<>>
    ELSE LET a == AnalyzeThread(threads[k], scored) IN
         (IF a.ok THEN <<a.post>> ELSE <<>>) \o AnalyzedFrom(threads, k + 1, scored)

\* batch_analyze(posts), analyze_importance giving scores or not
RunBatchAnalyze(batch, scored) ==
    LET raises == DetectSortRaises(batch)
        threads == IF raises THEN <<>> ELSE DetectAndGroupThreads(batch)
        analyzed_results == AnalyzedFrom(threads, 1, scored)
    IN  /\ aggregation' =
               [posts |-> batch,
                threads |-> threads,
                results |-> analyzed_results,
                raised |-> raises,
                scored |-> scored,
                runs |-> aggregation.runs + 1,
                first |-> IF aggregation.runs = 0 THEN analyzed_results
                          ELSE aggregation.first]
        /\ UNCHANGED nonThreadsVars

BatchAnalyze ==
    /\ aggregation.runs = 0
    /\ \E scored \in BOOLEAN : RunBatchAnalyze(aggregation.posts, scored)

\* batch_analyze on the records it returned
BatchAnalyzeAgain ==
    /\ aggregation.runs = 1
    /\ ~aggregation.raised
    /\ \E scored \in BOOLEAN : RunBatchAnalyze(aggregation.results, scored)

ThreadsNext == BatchAnalyze \/ BatchAnalyzeAgain

SpecThreads == ThreadsInit /\ [][ThreadsNext]_vars

\* =========================================================================
\* PostCollector.collect_all_posts and collect_posts_by_platform: the
\* deduplication of collected posts
\* =========================================================================

DedupInit ==
    /\ CollectorQuiet
    /\ AuthQuiet
    /\ poolLog = "unused"
    /\ TimelineQuiet
    /\ TasksQuiet
    /\ ThreadsQuiet
    /\ pipeline = [pc |-> "idle", op |-> "none", platform |-> "",
                   existing_urls |-> {}, all_existing_post_ids |-> {},
                   accounts |-> 0, all_posts |-> <<>>]

\* the run after the existing-URL set and the existing-id sets of both
\* worksheets were read and merged
RunStarted(op, platform, urls, out, all) ==
    [pc |-> "accounts", op |-> op, platform |-> platform,
     existing_urls |-> urls,
     all_existing_post_ids |-> GetExistingPostIds(out) \cup GetExistingPostIds(all),
     accounts |-> 0, all_posts |-> <<>>]

\* collect_all_posts up to its loop over the accounts
CollectAllPosts ==
    /\ pipeline.pc \in {"idle", "forwarded"}
    /\ \E urls \in SUBSET (PostUrlValues \ {""}), out \in Worksheets, all \in Worksheets :
         pipeline' = RunStarted("all", "", urls, out, all)
    /\ UNCHANGED nonPipelineVars

\* collect_posts_by_platform up to its loop over the accounts
CollectPostsByPlatform ==
    /\ pipeline.pc \in {"idle", "forwarded"}
    /\ \E p \in Platforms :
         \E urls \in SUBSET (PostUrlValues \ {""}), out \in Worksheets, all \in Worksheets :
            pipeline' = RunStarted("platform", p, urls, out, all)
    /\ UNCHANGED nonPipelineVars

\* the `for post in posts` loop: the posts that are appended to new_posts
RECURSIVE NewPosts(_, _, _)
NewPosts(batch, existing_urls, all_existing_post_ids) ==
    IF batch = <<>> THEN <<>>
    ELSE LET post == Head(batch)
             post_platform == Lower(post.platform)
             skip == \/ post.post_url # "" /\ post.post_url \in existing_urls
                     \/ /\ post.post_id # ""
                        /\ <<post_platform, post.post_id>> \in all_existing_post_ids
         IN (IF skip THEN <<>> ELSE <<post>>)
            \o NewPosts(Tail(batch), existing_urls, all_existing_post_ids)

\* one pass of the loop over the accounts: an inactive account is skipped
\* (collect_all_posts), otherwise its posts are collected and the new ones
\* appended to all_posts
DedupAccount ==
    /\ pipeline.pc = "accounts"
    /\ pipeline.accounts < NumAccounts
    /\ \E p \in SheetPlatforms \ {""}, active \in BOOLEAN :
         /\ pipeline.op = "platform" => (p = pipeline.platform /\ active)
         /\ \E batch \in CollectedBatches(Lower(p)) :
              /\ ~active => batch = <<>>
              /\ pipeline' = [pipeline EXCEPT
                                !.accounts = @ + 1,
                                !.all_posts = @ \o NewPosts(batch, pipeline.existing_urls,
                                                            pipeline.all_existing_post_ids)]
    /\ UNCHANGED nonPipelineVars

\* after the loop: db_manager.save_posts(all_posts) and the analysis
ForwardPosts ==
    /\ pipeline.pc = "accounts"
    /\ pipeline.accounts > 0
    /\ pipeline' = [pipeline EXCEPT !.pc = "forwarded"]
    /\ UNCHANGED nonPipelineVars

DedupNext ==
    \/ CollectAllPosts
    \/ CollectPostsByPlatform
    \/ DedupAccount
    \/ ForwardPosts

SpecDedup == DedupInit /\ [][DedupNext]_vars

\* =========================================================================
\* DatabaseManager.save_posts
\* =========================================================================

StoreInit ==
    /\ CollectorQuiet
    /\ AuthQuiet
    /\ poolLog = "unused"
    /\ TimelineQuiet
    /\ TasksQuiet
    /\ ThreadsQuiet
    /\ pipeline = NoRows

\* save_posts is called: session = self.get_session()
SavePosts(t) ==
    /\ pipeline.sessions[t].pc = "idle"
    /\ \E batch \in SaveBatches :
         pipeline' = [pipeline EXCEPT !.sessions[t] =
                         [pc |-> "loop", batch |-> batch, k |-> 1, pending |-> <<>>]]
    /\ UNCHANGED nonPipelineVars

\* one pass of `for post_data in posts`: the query sees the committed rows
\* (the session has autoflush=False, so not the posts added before), and
\* session.add when it finds none
SavePostsCheck(t) ==
    LET s == pipeline.sessions[t] IN
    /\ s.pc = "loop"
    /\ s.k <= Len(s.batch)
    /\ LET existing == pipeline.table[s.batch[s.k]] > 0 IN
       pipeline' = [pipeline EXCEPT !.sessions[t] =
                       [s EXCEPT !.k = @ + 1,
                                 !.pending = IF existing THEN @
                                             ELSE Append(@, s.batch[s.k])]]
    /\ UNCHANGED nonPipelineVars

\* the number of entries of a list that equal key
RECURSIVE Occurrences(_, _)
Occurrences(list, key) ==
    IF list = <<>> THEN 0
    ELSE (IF Head(list) = key THEN 1 ELSE 0) + Occurrences(Tail(list), key)

\* session.commit() and session.close()
SavePostsCommit(t) ==
    LET s == pipeline.sessions[t] IN
    /\ s.pc = "loop"
    /\ s.k > Len(s.batch)
    /\ pipeline' = [pipeline EXCEPT
                      !.table = [key \in PostKeys |-> @[key] + Occurrences(s.pending, key)],
                      !.sessions[t] = NoSession]
    /\ UNCHANGED nonPipelineVars

StoreNext ==
    \E t \in Tasks :
        \/ SavePosts(t)
        \/ SavePostsCheck(t)
        \/ SavePostsCommit(t)

SpecStore == StoreInit /\ [][StoreNext]_vars

\* =========================================================================
\* The mapping of raw items to posts: XAgentClient.get_user_tweets,
\* ApifyTwitterClient._map_apify_to_standard, XAuthClient._convert_tweet_to_post
\* =========================================================================

\* A strategy has received the raw items of user "v".
NormalizeInit ==
    /\ CollectorQuiet
    /\ AuthQuiet
    /\ poolLog = "unused"
    /\ TimelineQuiet
    /\ TasksQuiet
    /\ ThreadsQuiet
    /\ \E strategy \in {"agent", "apify", "auth"} :
         \E raw \in RawBatches(CASE strategy = "agent" -> AgentRawPosts
                                 [] strategy = "apify" -> ApifyRawTweets
                                 [] OTHER -> AuthRawTweets) :
            pipeline = [pc |-> "raw", strategy |-> strategy, raw |-> raw,
                        posts |-> <<>>, anomalies |-> 0]

\* a raw entry of the agent that is returned as it came
Untouched(post) ==
    IF ~post.obj THEN NotAPost
    ELSE MappedPost("missing", post.post_id, post.author_username)

\* the body of `for post in posts` of XAgentClient.get_user_tweets for one
\* object: [post, warned]
AgentMapPost(post, username) ==
    LET post_id == IF post.id # "missing" /\ post.post_id = "missing"
                   THEN post.id ELSE post.post_id
        author_username == IF post.author # "missing" /\ post.author_username = "missing"
                           THEN post.author ELSE post.author_username
        missing_fields == ~Given(post_id) \/ ~Given(author_username)
    IN [post |-> MappedPost("twitter",
                            IF missing_fields /\ post_id = "missing"
                            THEN "unknown" ELSE post_id,
                            IF missing_fields /\ author_username = "missing"
                            THEN username ELSE author_username),
        warned |-> missing_fields]

\* that loop from entry k on: the first entry that is not an object raises
\* TypeError, which ends the loop; posts is the list that came from the CLI,
\* changed in place
RECURSIVE AgentMapFrom(_, _, _, _)
AgentMapFrom(tweets, k, stopped, username) ==
    IF k > Len(tweets) THEN [posts |-> <<>>, anomalies |-> 0]
    ELSE LET bad == stopped \/ ~tweets[k].obj
             rest == AgentMapFrom(tweets, k + 1, bad, username)
         IN IF bad
            THEN [posts |-> <<Untouched(tweets[k])>> \o rest.posts,
                  anomalies |-> rest.anomalies]
            ELSE LET m == AgentMapPost(tweets[k], username) IN
                 [posts |-> <<m.post>> \o rest.posts,
                  anomalies |-> (IF m.warned THEN 1 ELSE 0) + rest.anomalies]

\* XAgentClient.get_user_tweets on a successful CLI result
AgentNormalize ==
    /\ pipeline.pc = "raw"
    /\ pipeline.strategy = "agent"
    /\ LET m == AgentMapFrom(pipeline.raw, 1, FALSE, "v") IN
       pipeline' = [pipeline EXCEPT !.pc = "done", !.posts = m.posts,
                                    !.anomalies = m.anomalies]
    /\ UNCHANGED nonPipelineVars

\* _map_apify_to_standard: the post, or None (NotAPost)
MapApifyToStandard(apify_tweet, expected_username) ==
    LET author_username == IF apify_tweet.userName = "notdict" THEN "missing"
                           ELSE apify_tweet.userName
    IN IF ~Given(apify_tweet.id) \/ ~Given(author_username) THEN NotAPost
       ELSE IF author_username # expected_username THEN NotAPost
       ELSE MappedPost("twitter", apify_tweet.id, author_username)

\* the loop of ApifyTwitterClient.get_user_tweets over the dataset items
RECURSIVE ApifyMapFrom(_, _, _)
ApifyMapFrom(items, k, username) ==
    IF k > Len(items) THEN [posts |-> <<>>, anomalies |-> 0]
    ELSE LET tweet == MapApifyToStandard(items[k], username)
             rest == ApifyMapFrom(items, k + 1, username)
             warned == ~Given(items[k].id) \/ items[k].userName \notin {"v", "other"}
         IN [posts |-> (IF tweet.obj THEN <<tweet>> ELSE <<>>) \o rest.posts,
             anomalies |-> (IF warned THEN 1 ELSE 0) + rest.anomalies]

ApifyNormalize ==
    /\ pipeline.pc = "raw"
    /\ pipeline.strategy = "apify"
    /\ LET m == ApifyMapFrom(pipeline.raw, 1, "v") IN
       pipeline' = [pipeline EXCEPT !.pc = "done", !.posts = m.posts,
                                    !.anomalies = m.anomalies]
    /\ UNCHANGED nonPipelineVars

\* _convert_tweet_to_post
ConvertTweetToPost(tweet_data, username) ==
    LET tweet_id == IF Given(tweet_data.id) THEN tweet_data.id
                    ELSE IF tweet_data.rest_id = "missing" THEN "" ELSE tweet_data.rest_id
    IN MappedPost("twitter", tweet_id, username)

\* the loop of XAuthClient.get_user_tweets over the tweets fetched
AuthNormalize ==
    /\ pipeline.pc = "raw"
    /\ pipeline.strategy = "auth"
    /\ pipeline' = [pipeline EXCEPT
                      !.pc = "done",
                      !.posts = [k \in 1..Len(pipeline.raw) |->
                                   ConvertTweetToPost(pipeline.raw[k], "v")]]
    /\ UNCHANGED nonPipelineVars

NormalizeNext ==
    \/ AgentNormalize
    \/ ApifyNormalize
    \/ AuthNormalize

SpecNormalize == NormalizeInit /\ [][NormalizeNext]_vars

\* =========================================================================
\* Properties
\* =========================================================================

\* _collect_posts_for_account has returned for the current account
Returned == pc = "idle" /\ acct >= 1

Succeeded(k) == attempted[k].posts # <<>>

Untagged(ps) == [k \in 1..Len(ps) |-> [ps[k] EXCEPT !.category = FALSE]]

MethodOf(s) == IF s = "nitter" THEN "nitter" ELSE "agent-twitter-client"

\* the collector went on to the next strategy after the agent call just made
MovedOn ==
    CASE x_client = "XAgentClient" -> pc = "fallback"
      [] x_client = "NitterClient" -> pc = "tag"
      [] OTHER -> pc = "loop" \/ (pc = "tag" /\ fbIdx = Len(priority))

\* C1: within one account's acquisition the get_user_tweets calls happen in
\* the order of TWITTER_CLIENT_PRIORITY: of two configured strategies both
\* called for the account, the one called first is the one ranked first.
C1_StrictPriorityOrder ==
    \A j, k \in 1..Len(attempted) :
        (/\ j < k
         /\ attempted[j].invoked
         /\ attempted[k].invoked
         /\ Rank(attempted[j].s) # 0
         /\ Rank(attempted[k].s) # 0)
        => Rank(attempted[j].s) < Rank(attempted[k].s)

\* C2: once a strategy has returned a non-empty post list no further strategy
\* is attempted for the account, and the posts handed back are exactly that
\* strategy's posts.
C2_HaltsAtFirstSuccess ==
    /\ \A k \in 1..Len(attempted) : Succeeded(k) => k = Len(attempted)
    /\ (\E k \in 1..Len(attempted) : Succeeded(k)) => pc \in {"tag", "idle"}
    /\ (Returned /\ attempted # <<>> /\ Succeeded(Len(attempted)))
           => Untagged(posts) = attempted[Len(attempted)].posts

\* C2 witness: the primary client succeeded, the fallback client was left alone
C2_Witness ==
    /\ Returned
    /\ x_client = "NitterClient"
    /\ Len(attempted) = 1
    /\ Succeeded(1)

\* C3: no exception leaves _collect_posts_for_account, and when every
\* strategy failed, raised or returned nothing the result is empty.
C3_NeverRaises ==
    /\ ~raised
    /\ (Returned /\ \A k \in 1..Len(attempted) : ~Succeeded(k)) => posts = <<>>

\* C3 witness: the agent's constructor raised and the account ended empty
C3_Witness ==
    /\ Returned
    /\ posts = <<>>
    /\ \E k \in 1..Len(attempted) : attempted[k].threw

\* C4: a strategy that failed fatally for an account is not called again for
\* a later account while its cooldown (at least the base delay) is running.
C4_CooldownSkipsStrategy ==
    \A k \in 1..Len(attempted) : ~attempted[k].cooling

\* C5: no acquisition request goes to an instance that answered 429 less
\* than rate_limit_cooldown seconds ago, whichever client sends it.
C5_NoRequestDuringCooldown ==
    \A q \in reqs : ~q.cooling

\* a rate-limit event on instance i in this step
LimitEvent(i) ==
    /\ nitter'.rate_limit_tracker[i].present
    /\ \/ ~nitter.rate_limit_tracker[i].present
       \/ nitter'.rate_limit_tracker[i].count # nitter.rate_limit_tracker[i].count

\* C6: across consecutive rate-limit events on one instance the recorded
\* cooldown length never decreases and never exceeds 240 s: it is 30, 60,
\* 120, 240, 240, ...
C6_BackoffNonDecreasingCapped ==
    [][\A i \in Instances :
          LimitEvent(i) =>
              LET old == nitter.rate_limit_tracker[i]
                  new == nitter'.rate_limit_tracker[i]
                  n == new.count + 1
              IN /\ new.backoff_delay >= old.backoff_delay
                 /\ new.backoff_delay <= 240
                 /\ new.count = IF old.present THEN old.count + 1 ELSE 0
                 /\ new.backoff_delay =
                        IF n <= 4 THEN <<30, 60, 120, 240>>[n] ELSE 240]_vars

\* C6 witness: a fifth consecutive event, beyond the point where the cap bites
C6_Witness ==
    \E i \in Instances :
        /\ nitter.rate_limit_tracker[i].present
        /\ nitter.rate_limit_tracker[i].count >= 4
        /\ nitter.rate_limit_tracker[i].backoff_delay = 240

\* C7: a timeout is retried on the agent: the CLI is invoked again after a
\* timeout, at most 2 times per get_user_tweets call, and after the last
\* timeout the call returns nothing and the collector goes on.
C7_TimeoutRetriedBounded ==
    /\ Len(cli) <= 2
    /\ (cli # <<>> /\ cli[1].error = "Request timeout") => Len(cli) = 2
    /\ (cli # <<>> /\ \A k \in 1..Len(cli) : cli[k].error = "Request timeout")
           => (posts = <<>> /\ MovedOn)

\* C7 witness: the primary agent timed out twice and fallback is next
C7_Witness ==
    /\ Len(cli) = 2
    /\ \A k \in 1..2 : cli[k].error = "Request timeout"
    /\ pc = "fallback"

\* C8: after a CLI result with a fallback-required error the agent makes no
\* further CLI invocation in that call, returns nothing, and the collector
\* goes on to the next strategy.
C8_FatalNotRetried ==
    /\ \A k \in 1..Len(cli) :
          (~cli[k].success /\ cli[k].error = "Twitter Error 399") => k = Len(cli)
    /\ (\E k \in 1..Len(cli) : cli[k].error = "Twitter Error 399")
          => (posts = <<>> /\ MovedOn)

\* C8 witness: error 399 on the first CLI invocation of the primary agent
C8_Witness ==
    /\ Len(cli) = 1
    /\ cli[1].error = "Twitter Error 399"
    /\ pc = "fallback"

\* C9: a strategy that returns zero posts falls over to the next one, and the
\* posts finally returned are those of the first strategy that produced any,
\* each tagged with that strategy's collection_method.
C9_ZeroPostsFallOver ==
    /\ (Returned /\ x_client # "None" /\ attempted # <<>> /\ ~Succeeded(1))
           => Len(attempted) = 2
    /\ (Returned /\ attempted # <<>> /\ Succeeded(Len(attempted))) =>
           /\ \A k \in 1..(Len(attempted) - 1) : ~Succeeded(k)
           /\ Untagged(posts) = attempted[Len(attempted)].posts
           /\ \A k \in 1..Len(posts) :
                 posts[k].method = MethodOf(attempted[Len(attempted)].s)

\* C10: an empty result is returned only after every strategy named in
\* TWITTER_CLIENT_PRIORITY has been attempted.
C10_ExhaustedAfterAllConfigured ==
    (Returned /\ posts = <<>>) =>
        \A k \in 1..Len(priority) :
            \E j \in 1..Len(attempted) : attempted[j].s = priority[k]

\* =========================================================================
\* Properties of the authenticated client
\* =========================================================================

\* C11: the cookie file is written only when the login has reached terminal
\* success (or a validated session is in use): it is not written between the
\* warm-up and the login's terminal state, and after a call that ended in a
\* failed login there is no cookie file.
C11_NoHalfAuthenticatedFile ==
    /\ ~hist.wrote
    /\ (apc = "idle" /\ outcome \in FailOutcomes => ~cookie_file.exists)

\* C12: when a call has returned after the login flow ended with
\* DenyLoginSubtask or a server auth error, or after an authenticated query
\* was rejected, the cookies in memory are cleared and the cookie file is
\* deleted.
C12_PurgedOnAuthDenial ==
    (/\ apc = "idle"
     /\ \/ outcome \in {"denied", "autherror"}
        \/ outcome = "ok" /\ hist.queryRejected)
    => (cookies = EmptyJar /\ ~cookie_file.exists)

\* C13: a call that finds a cookie file older than cookie_cache_days does
\* not reuse it: the file is deleted and the jar stays empty, no verify_login
\* stands in for the login, and a query is issued only after the login flow
\* has run to success.
C13_StaleCacheNotReused ==
    hist.stale =>
        /\ ~hist.reused
        /\ hist.verified = "none"
        /\ (apc = "warm1" /\ lastReq.kind = "none"
              => cookies = EmptyJar /\ ~cookie_file.exists)
        /\ (apc \in {"lookup", "fetch", "close"} \/ lastReq.kind = "query"
              => hist.by = "flow" /\ hist.warmed /\ hist.onboarding)

\* a call that found a stale cookie file has issued a query
C13_Witness == hist.stale /\ lastReq.kind = "query"

\* C14: a call that reuses a cached session calls verify_login before any
\* other request; when it succeeds no warm-up and no onboarding request is
\* sent in the call; when it fails the jar is cleared and the cookie file
\* deleted, and a query is issued only after a login that began at the
\* warm-up has succeeded.
C14_ValidateBeforeReuse ==
    hist.reused =>
        /\ (hist.verified = "none" => apc = "verify" /\ lastReq.kind = "none")
        /\ (hist.verified = "ok" =>
              /\ ~hist.warmed /\ ~hist.onboarding
              /\ lastReq.kind \in {"verify", "query"}
              /\ hist.by = "cache")
        /\ (hist.verified = "failed" =>
              /\ (lastReq.kind = "verify" =>
                    apc = "warm1" /\ cookies = EmptyJar /\ ~cookie_file.exists)
              /\ (hist.onboarding \/ lastReq.kind = "guest" => hist.warmed)
              /\ (apc \in {"lookup", "fetch", "close"} \/ lastReq.kind = "query"
                    => hist.by = "flow" /\ hist.warmed))

\* a cached session failed its validation and the call went on to a query
C14_Witness == hist.reused /\ hist.verified = "failed" /\ lastReq.kind = "query"

\* C15: an unrecognised subtask or DenyLoginSubtask ends the login as a
\* failure, and once a login of the run has ended this way no later call
\* sends an onboarding-task request.
C15_FatalLoginNotRetried ==
    /\ (flow_result.why = "denied"
        \/ (flow_result.status = "continue" /\ flow_result.subtask = "UnknownSubtask")
          => apc = "idle" /\ outcome \in {"denied", "unknown"})
    /\ (lastReq.kind \in {"flowinit", "subtask"} => ~lastReq.afterFatal)

\* C16 as stated: every subtask request carries the flow_token of the most
\* recent server response that contained one.
C16_TokenOfLatestResponse == lastReq.kind = "subtask" => lastReq.tokLatest

\* C16: every subtask request, 2FA retries included, carries the flow_token
\* of the most recent response the flow accepted (status ok, no errors array,
\* a flow_token in the body), which is the value of self.flow_token.
C16_TokenOfLastAcceptedResponse == lastReq.kind = "subtask" => lastReq.tokAccepted

\* a second 2FA code has been submitted for a challenge
C16_Witness == lastReq.kind = "subtask" /\ apc = "twofa" /\ codes = 2

\* C17: login_user terminates: a call that is in the login flow leaves it,
\* whatever the server answers.
C17_LoginTerminates == (apc \in LoginPhases) ~> (apc \notin LoginPhases)

\* C18: no more than 3 codes are submitted for one 2FA challenge, a rejected
\* code is followed by another submission while fewer than 3 were rejected,
\* and the login fails on a rejected code only when it was the third.
C18_ThreeCodesBeforeFailure ==
    /\ codes <= 3
    /\ (hist.rejected2fa /\ codes < 3 => apc = "twofa")
    /\ (hist.rejected2fa /\ apc = "idle" /\ outcome \in FailOutcomes => codes = 3)

\* C19: the guest activation comes after the warm-up, every onboarding-task
\* request comes after a guest activation that succeeded, and a call whose
\* guest activation failed ends as a failed login with no onboarding-task
\* request sent.
C19_GuestTokenBeforeLogin ==
    /\ (lastReq.kind = "guest" => hist.warmed /\ ~hist.onboarding)
    /\ (hist.onboarding \/ lastReq.kind \in {"flowinit", "subtask"}
          => guest_token /\ hist.warmed)
    /\ (lastReq.kind = "guest" /\ ~guest_token
          => apc = "idle" /\ outcome = "guestfail")
    /\ (outcome = "guestfail" => ~hist.onboarding /\ ~guest_token /\ hist.by = "none")

\* a call has ended on a failed guest activation
C19_Witness == apc = "idle" /\ outcome = "guestfail" /\ lastReq.kind = "guest"

\* C20: every request issued through TwitterHTTPSession.request went out
\* with an x-csrf-token header equal to the ct0 cookie the jar held at that
\* moment (no header when the jar held no ct0).
C20_CsrfHeaderMatchesJar == lastReq.csrfOk

\* =========================================================================
\* Properties of the mirror pool
\* =========================================================================

\* C25: after a _check_instances the members of working_instances are the
\* instances that answered the probe with status 200 and at least one
\* timeline item, and get_user_tweets sends requests to members of
\* working_instances only.
C25_UsableOnlyWithContent ==
    /\ (poolLog.last # "none"
          => Range(nitter.working_instances) \subseteq poolLog.probed)
    /\ (poolLog.last = "get"
          => Range(poolLog.tried) \subseteq Range(nitter.working_instances))

\* after a check in which an instance failed the probe and another passed
\* it, get_user_tweets has sent a request
C25_Witness ==
    /\ poolLog.last = "get"
    /\ poolLog.tried # <<>>
    /\ poolLog.probed # Instances

\* C26: the instances a get_user_tweets call asks, it asks in descending
\* order of their score (success rate times 0.7 plus inverse response time
\* times 0.3) computed from the statistics as they are at that call.
C26_TriedInScoreOrder ==
    poolLog.last = "get" =>
        \A j, k \in 1..Len(poolLog.tried) :
            j < k => ScoreGeq(nitter.instance_stats, poolLog.tried[j], poolLog.tried[k])

\* a call asked two instances, the one listed later in NITTER_INSTANCES
\* first because its score is strictly higher
C26_Witness ==
    /\ poolLog.last = "get"
    /\ poolLog.tried = <<InstanceList[2], InstanceList[1]>>
    /\ ~ScoreGeq(nitter.instance_stats, InstanceList[1], InstanceList[2])

\* C27: no exception leaves NitterClient.get_user_tweets, and a call in
\* which no instance answered with a page (each asked instance answered 429,
\* another status or failed, all were in cooldown, or the pool was empty)
\* returns an empty list.
C27_AllFailedReturnsEmpty ==
    poolLog.last = "get" =>
        /\ ~poolLog.raised
        /\ (~poolLog.answered => posts = <<>>)

\* a call asked every instance of the pool and returned nothing
C27_Witness ==
    /\ poolLog.last = "get"
    /\ Range(poolLog.tried) = Instances
    /\ ~poolLog.answered
    /\ posts = <<>>

\* =========================================================================
\* Properties of the authenticated timeline query
\* =========================================================================

\* the statements that end the loop because nothing more can be fetched
NoProgressHalts == {"exception", "http", "empty", "no_cursor", "max_requests"}

\* C21: when the pages contain no malformed entry, _fetch_user_tweets ends
\* only because no further progress is possible, never at an entry dated
\* outside the window, and it returns every in-window tweet of the pages it
\* received, also those after an out-of-window tweet.
C21_OutOfWindowSkipped ==
    (timeline.pc = "done" /\ ~timeline.shown.malformed) =>
        /\ timeline.halt \in NoProgressHalts
        /\ timeline.tweets.inwin = timeline.shown.inwin

\* C22: when every dated tweet of the pages can be compared with the cutoff
\* and lies inside the window, a malformed entry costs only itself: the call
\* does not end on a parse failure, and every well-formed tweet of the pages
\* it received is returned.
C22_MalformedEntrySkipped ==
    (timeline.pc = "done" /\ ~timeline.shown.out /\ ~timeline.shown.aware) =>
        /\ timeline.halt # "parse"
        /\ timeline.tweets.inwin = timeline.shown.inwin
        /\ timeline.tweets.notime = timeline.shown.notime

\* =========================================================================
\* Properties of the background collections
\* =========================================================================

\* C23: whenever no thread is inside _record_rate_limit, the rate-limit
\* counter of the instance equals the number of events recorded on its
\* NitterClient (the first event creates the entry with count 0, every later
\* one adds 1): no update is lost.
C23_NoLostUpdate ==
    \A c \in Collectors :
        (\A t \in Tasks : background.tasks[t].collector = c => ~InRecordRateLimit(t)) =>
            /\ background.rl_tracker[c].present = (background.rl_events[c] > 0)
            /\ (background.rl_events[c] > 0 =>
                    background.rl_tracker[c].count = background.rl_events[c] - 1)

\* C24: at no time are two strategy invocations for the same account in
\* progress, whether the collections were triggered manually or by the
\* daily job.
C24_OneInvocationPerAccount ==
    \A t, u \in Tasks :
        (t # u /\ InAccount(t) /\ InAccount(u)) =>
            background.tasks[t].account # background.tasks[u].account

\* =========================================================================
\* Properties of the thread aggregation
\* =========================================================================

\* C28: batch_analyze applied to the records it returned does not raise and,
\* when the scores are obtained again, returns the same records: same thread
\* ids, same member counts, same content.
C28_AggregationIdempotent ==
    aggregation.runs = 2 =>
        /\ ~aggregation.raised
        /\ (aggregation.scored => aggregation.results = aggregation.first)

\* the four values of a record returned by the first batch_analyze:
\* platform, author, timestamp of the anchor, number of members
FourValues(r) ==
    <<r.platform, r.author_username, r.post_time,
      IF r.is_thread THEN r.thread_count ELSE 1>>

\* C29: after batch_analyze on a batch listed in any order, the thread id of
\* every returned record is made of exactly its platform, author, anchor
\* timestamp and member count, so two records that agree on these four get
\* the same id whatever their other fields; and the anchor of a thread is a
\* member with the earliest time.
C29_ThreadIdOfFourValues ==
    (aggregation.runs = 1 /\ ~aggregation.raised) =>
        /\ \A k \in 1..Len(aggregation.results) :
               LET r == aggregation.results[k] IN
               /\ r.thread_id.platform = r.platform
               /\ r.thread_id.author = r.author_username
               /\ r.thread_id.digest = FourValues(r)
               /\ \A m \in 1..Len(r.thread_posts) :
                      ParsePostTime(r.post_time) <= ParsePostTime(r.thread_posts[m].post_time)
        /\ \A j, k \in 1..Len(aggregation.results) :
               FourValues(aggregation.results[j]) = FourValues(aggregation.results[k])
                   => aggregation.results[j].thread_id = aggregation.results[k].thread_id

\* a thread whose later member came first in the batch
C29_Witness ==
    /\ aggregation.runs = 1
    /\ \E k \in 1..Len(aggregation.results) :
           /\ aggregation.results[k].is_thread
           /\ \E m \in 1..Len(aggregation.results[k].thread_posts) :
                  aggregation.results[k].thread_posts[m] = aggregation.posts[1]
           /\ ParsePostTime(aggregation.posts[1].post_time) > ParsePostTime(aggregation.results[k].post_time)
           /\ aggregation.posts[1].original_content # aggregation.results[k].thread_posts[1].original_content

\* the text of a content of one line, empty for an empty content
TextOf(content) == IF content = <<>> THEN "" ELSE content[1].text

\* the merged records returned for the thread thread_posts
RecordsOf(thread_posts) ==
    {k \in 1..Len(aggregation.results) :
        aggregation.results[k].is_thread /\ aggregation.results[k].thread_posts = thread_posts}

\* C30 as stated: when the scores are obtained, every thread of N >= 2
\* members gives exactly one merged record, whose content is the N segments
\* "i/N: <text>", i = 1..N, of the members in time order, with
\* thread_count = N and the members retained.
C30_OneRecordOfNSegments ==
    (aggregation.runs = 1 /\ ~aggregation.raised /\ aggregation.scored) =>
        \A j \in 1..Len(aggregation.threads) :
            LET t == aggregation.threads[j]
                N == Len(t)
            IN  N >= 2 =>
                    /\ Cardinality(RecordsOf(t)) = 1
                    /\ \A k \in RecordsOf(t) :
                           /\ aggregation.results[k].thread_count = N
                           /\ aggregation.results[k].original_content =
                                  [i \in 1..N |->
                                      [tags |-> <<<<i, N>>>>,
                                       text |-> TextOf(t[i].original_content)]]

\* C30, amended: when the scores are obtained, a thread of N >= 2 members
\* whose members are in time order gives one merged record if some member has
\* content and none otherwise; the record's content is the segments
\* "i/N: <text>" of the members that have content, each numbered with the
\* member's place i among all N members, in time order; thread_count = N and
\* the members are retained. Without scores no record is returned.
C30_OneRecordOfNonEmptySegments ==
    (aggregation.runs = 1 /\ ~aggregation.raised) =>
        \A j \in 1..Len(aggregation.threads) :
            LET t == aggregation.threads[j]
                N == Len(t)
                kept == {i \in 1..N : t[i].original_content # <<>>}
                nth(s) == CHOOSE i \in kept : Cardinality({m \in kept : m <= i}) = s
            IN  N >= 2 =>
                    /\ \A h, i \in 1..N :
                           h < i => ParsePostTime(t[h].post_time) <= ParsePostTime(t[i].post_time)
                    /\ Cardinality(RecordsOf(t)) = IF aggregation.scored /\ kept # {} THEN 1 ELSE 0
                    /\ \A k \in RecordsOf(t) :
                           /\ aggregation.results[k].thread_count = N
                           /\ aggregation.results[k].original_content =
                                  [s \in 1..Cardinality(kept) |->
                                      [tags |-> <<<<nth(s), N>>>>,
                                       text |-> TextOf(t[nth(s)].original_content)]]

\* a thread of two members, the first without content, returned as a record
\* of one segment
C30_Witness ==
    /\ aggregation.runs = 1
    /\ aggregation.scored
    /\ \E j \in 1..Len(aggregation.threads) :
           /\ Len(aggregation.threads[j]) = 2
           /\ aggregation.threads[j][1].original_content = <<>>
           /\ \E k \in RecordsOf(aggregation.threads[j]) : Len(aggregation.results[k].original_content) = 1

\* C34: detect_and_group_threads returns for every batch, also one with
\* posts whose time cannot be parsed; every post of the batch is in exactly
\* one thread; and two posts that follow each other in a thread have the
\* same author and times at most the threshold apart, while the last post of
\* a thread and the first of the next differ in author or lie further apart.
C34_GroupingPartitionsBatch ==
    aggregation.runs = 1 =>
        LET threads == aggregation.threads
            batch == aggregation.posts
            Near(p, q) ==
                /\ p.author_username = q.author_username
                /\ ParsePostTime(p.post_time) >= 0
                /\ ParsePostTime(q.post_time) >= 0
                /\ ParsePostTime(q.post_time) - ParsePostTime(p.post_time)
                       <= time_threshold_minutes
                /\ ParsePostTime(p.post_time) - ParsePostTime(q.post_time)
                       <= time_threshold_minutes
        IN  /\ ~aggregation.raised
            /\ \A p \in Range(batch) :
                   Cardinality({i \in 1..Len(batch) : batch[i] = p}) =
                       Cardinality({x \in {<<j, m>> : j \in 1..Len(threads), m \in 1..MaxPosts} :
                                       x[2] <= Len(threads[x[1]]) /\ threads[x[1]][x[2]] = p})
            /\ \A j \in 1..Len(threads) :
                   /\ threads[j] # <<>>
                   /\ \A m \in 1..(Len(threads[j]) - 1) :
                          Near(threads[j][m], threads[j][m + 1])
                   /\ j < Len(threads) =>
                          ~Near(threads[j][Len(threads[j])], threads[j + 1][1])

\* C35: a mirror instance is re-scored on every probe and on every
\* acquisition attempt: each instance get_user_tweets sent a request to has
\* one more outcome counted in its instance_stats than before the call, and
\* a probe raises success_count of exactly the instances that answered with
\* a parsed timeline.
C35_RescoredOnAttempt ==
    /\ poolLog.last = "get" =>
          \A i \in Range(poolLog.tried) :
              nitter.instance_stats[i].success_count + nitter.instance_stats[i].fail_count
                  = poolLog.before[i].success_count + poolLog.before[i].fail_count + 1
    /\ poolLog.last = "check" =>
          \A i \in Instances :
              nitter.instance_stats[i].success_count
                  = poolLog.before[i].success_count + (IF i \in poolLog.probed THEN 1 ELSE 0)

\* C36: a rate-limited instance is skipped for exactly the backoff delay
\* recorded for its last limit event: _is_instance_in_cooldown holds up to
\* last_rate_limit + backoff_delay and no longer; and a get_user_tweets call
\* that found every working instance in cooldown has waited long enough to
\* ask at least one of them.
C36_CooldownIsBackoff ==
    /\ \A i \in Instances :
          LET tr == nitter.rate_limit_tracker[i] IN
          tr.present =>
              /\ IsInstanceInCooldown(nitter.rate_limit_tracker, i,
                                      tr.last_rate_limit + tr.backoff_delay - 1)
              /\ ~IsInstanceInCooldown(nitter.rate_limit_tracker, i,
                                       tr.last_rate_limit + tr.backoff_delay)
    /\ (poolLog.last = "get" /\ nitter.working_instances # <<>>) => poolLog.tried # <<>>

\* C37: the limit counter of an instance counts consecutive limit events:
\* once get_user_tweets has returned a page from an instance, the next 429
\* of that instance is recorded with the base delay again.
C37_SuccessResetsCounter ==
    (poolLog.last = "get" /\ poolLog.answered) =>
        LET i == poolLog.tried[Len(poolLog.tried)] IN
        GetBackoffDelay(RecordRateLimit(nitter.rate_limit_tracker, i, now), i)
            = InitialBackoff

\* C39: XAgentClient.get_user_tweets never lets an exception reach its
\* caller: every call the orchestrator made to it returned, also a call in
\* which the CLI reported an error that makes get_user_tweets raise
\* TwitterFallbackRequired or in which the inner handler itself failed.
C39_AgentNeverPropagates ==
    \A k \in 1..Len(attempted) :
        (attempted[k].s = "agent" /\ attempted[k].invoked) => ~attempted[k].threw

C39_Witness ==
    \E k \in 1..Len(attempted) :
        /\ attempted[k].s = "agent"
        /\ attempted[k].invoked
        /\ attempted[k].fatal
        /\ ~attempted[k].threw

\* C40: when login_user has returned True and _login has set
\* is_authenticated, the session holds auth_token and ct0 (is_logged_in is
\* true), whatever the server answered during the flow.
C40_AuthenticatedIsLoggedIn ==
    (apc = "lookup" /\ hist.by = "flow") => IsLoggedIn(cookies)

\* C38: already-seen posts are never forwarded: of the posts handed to
\* storage and analysis by collect_all_posts or collect_posts_by_platform,
\* none has its post_url in the existing-URL set, none has its (platform,
\* post_id) in the existing-id sets read at the start of the run, and no two
\* of them carry the same (platform, post_id).
C38_SeenPostsNotForwarded ==
    pipeline.pc = "forwarded" =>
        LET all_posts == pipeline.all_posts IN
        /\ \A k \in 1..Len(all_posts) :
              /\ all_posts[k].post_url \notin pipeline.existing_urls
              /\ <<Lower(all_posts[k].platform), all_posts[k].post_id>>
                     \notin pipeline.all_existing_post_ids
        /\ \A j, k \in 1..Len(all_posts) :
              (j < k /\ all_posts[j].post_id # "")
                  => \/ all_posts[j].platform # all_posts[k].platform
                     \/ all_posts[j].post_id # all_posts[k].post_id

\* C33: (platform, post_id) is unique among the stored posts: whatever
\* save_posts calls ran, one after the other or interleaved, and whatever
\* their batches listed, the posts table holds at most one row per
\* (platform, post_id).
C33_OneRowPerPost ==
    \A key \in PostKeys : pipeline.table[key] <= 1

\* C31: of N well-formed and M malformed raw entries, each strategy's
\* mapping emits exactly N posts and records M anomalies.
C31_OnePostPerWellFormedEntry ==
    pipeline.pc = "done" =>
        LET raw == pipeline.raw
            N == Cardinality({k \in 1..Len(raw) : WellFormed(pipeline.strategy, raw[k])})
            M == Cardinality({k \in 1..Len(raw) : Malformed(pipeline.strategy, raw[k])})
        IN /\ Len(pipeline.posts) = N
           /\ pipeline.anomalies = M

\* C32: every post returned by XAgentClient.get_user_tweets or made by
\* XAuthClient._convert_tweet_to_post is an object with a non-empty post_id,
\* author_username and platform, whatever the raw items carried.
C32_RequiredFieldsFilled ==
    (pipeline.pc = "done" /\ pipeline.strategy \in {"agent", "auth"}) =>
        \A k \in 1..Len(pipeline.posts) :
            LET post == pipeline.posts[k] IN
            /\ post.obj
            /\ Given(post.platform)
            /\ Given(post.post_id)
            /\ Given(post.author_username)

====
